---- MODULE Spec2Model ----
(***************************************************************************)
(* The hazard accumulator (Builder) and the typestate condition builder    *)
(* (Condition / PartialCondition) of the sifis-td extension, as a state    *)
(* machine.  The const generics INIT and NESTED of the Rust types are      *)
(* carried as fields of the one live builder handle; the impl blocks that  *)
(* give each method its receiver type are the guards of the actions.       *)
(***************************************************************************)
EXTENDS Integers, Sequences, FiniteSets, TLC

VARIABLES
    risks,      \* Builder.risks: Vec<risk::Detail>
    hazards,    \* Builder.hazards: Vec<Hazard>
    hazard,     \* the local `hazard` of a running Builder::hazard call
    handle,     \* the one live Condition / PartialCondition value
    stack,      \* running callbacks, outermost first: the hazard closure, or closures
    panic,      \* "none", or the panic that unwound the build chain
    message,    \* what the panic message formats: the pointer and the error
    sifis,      \* the value returned by Builder::build
    calls,      \* history: the builder methods the current hazard closure has called
    given,      \* history: the hazard-addition calls of the session, in call order
    live,       \* the builder handles that exist: made, and not yet moved or dropped
    evaluated   \* the built extension evaluated against data: the data and the result

vars == <<risks, hazards, hazard, handle, stack, panic, message, sifis, calls, given,
          live, evaluated>>

\* ------------------------------------------------------------------ bounds

\* Number of Builder::hazard calls in one accumulation session.
MaxHazards == 2
\* Number of (pointer, condition) items committed in one session.
MaxItems == 3

\* ------------------------------------------------------------------ inputs

Ids == {"FireHazard", "Explosion"}

Levels == {0, 255}

\* Pointer texts, as sequences of characters; the last one has no leading "/".
PointerInputs == { <<"/", "a">>, <<"/", "b">>, <<"a">> }

\* The pointer texts the closures of the session specification use.
SessionPointers == { <<"/", "a">>, <<"a">> }

NativeBool(b) == [ty |-> "bool", b |-> b, i |-> 0, f |-> "none", s |-> <<>>]

NativeInt(i) == [ty |-> "i32", b |-> FALSE, i |-> i, f |-> "none", s |-> <<>>]

\* An f64: class "finite" (value i / 2), "nan", "inf" or "neginf".
NativeF64(class, i) == [ty |-> "f64", b |-> FALSE, i |-> i, f |-> class, s |-> <<>>]

NoNative == [ty |-> "none", b |-> FALSE, i |-> 0, f |-> "none", s |-> <<>>]

\* The integer types of impl_value_from!.
IntTypes == {"i8", "u8", "i16", "u16", "i32", "u32", "i64", "u64", "isize", "usize"}

NativeIntOf(ty, i) == [ty |-> ty, b |-> FALSE, i |-> i, f |-> "none", s |-> <<>>]

\* An f32, with the classes of an f64.
NativeF32(class, i) == [ty |-> "f32", b |-> FALSE, i |-> i, f |-> class, s |-> <<>>]

\* A String (ty "String") or a &'static str (ty "&str"), as its characters.
NativeStr(ty, s) == [ty |-> ty, b |-> FALSE, i |-> 0, f |-> "none", s |-> s]

\* Comparison values: each set holds one value that converts and a NaN.
ValueInputs == { NativeBool(TRUE), NativeF64("nan", 0) }

ChainValueInputs == { NativeInt(5), NativeF64("nan", 0) }

CmpMethods == {"eq", "ne", "lt", "le", "ge", "gt"}

\* The comparison methods the closures of the session specification call.
SessionMethods == {"eq", "gt"}

\* ------------------------------------------------------------ value model

NoNumber == [N |-> "none", v |-> 0]

\* A plausible slip: the integer is cast to a float.
NumberFromIntAsFloat(i) == [N |-> "Float", v |-> 2 * i]

\* serde_json::Number from an integer type: PosInt or NegInt.
NumberFromInt(i) == [N |-> IF i >= 0 THEN "PosInt" ELSE "NegInt", v |-> i]

\* serde_json::Number::from_f64: None unless the float is finite.
NumberFromF64(x) ==
    IF x.f = "finite"
    THEN [ok |-> TRUE, num |-> [N |-> "Float", v |-> x.i]]
    ELSE [ok |-> FALSE, num |-> NoNumber]

ValueBool(b) == [tag |-> "Bool", b |-> b, num |-> NoNumber, s |-> <<>>]

ValueNumber(n) == [tag |-> "Number", b |-> FALSE, num |-> n, s |-> <<>>]

NoValue == [tag |-> "none", b |-> FALSE, num |-> NoNumber, s |-> <<>>]

\* Value::String(Cow<'static, str>)
ValueString(s) == [tag |-> "String", b |-> FALSE, num |-> NoNumber, s |-> s]

NoError == [kind |-> "none", text |-> <<>>]

\* condition::InvalidFloat
InvalidFloat == [kind |-> "InvalidFloat", text |-> <<>>]

\* hazard::InvalidJsonPointer(Cow<str>): the text that is no pointer.
InvalidJsonPointer(s) == [kind |-> "InvalidJsonPointer", text |-> s]

\* f64::from(f32): every f32 is an f64, of the same class.
F64FromF32(x) == [x EXCEPT !.ty = "f64"]

\* A plausible slip: only NaN is refused.
ValueTryFromF64NanOnly(x) ==
    IF x.f # "nan"
    THEN [ok |-> TRUE, value |-> ValueNumber([N |-> "Float", v |-> x.i]), err |-> NoError]
    ELSE [ok |-> FALSE, value |-> NoValue, err |-> InvalidFloat]

\* impl TryFrom<f64> for Value
ValueTryFromF64(x) ==
    LET n == NumberFromF64(x)
    IN  IF n.ok THEN [ok |-> TRUE, value |-> ValueNumber(n.num), err |-> NoError]
                ELSE [ok |-> FALSE, value |-> NoValue, err |-> InvalidFloat]

\* T: TryInto<condition::Value>: From<bool>, From<String>, From<&'static str>,
\* From<integer>, TryFrom<f32>, TryFrom<f64>.
ValueTryFrom(x) ==
    CASE x.ty = "bool" -> [ok |-> TRUE, value |-> ValueBool(x.b), err |-> NoError]
      [] x.ty \in {"String", "&str"} ->
            [ok |-> TRUE, value |-> ValueString(x.s), err |-> NoError]
      [] x.ty \in IntTypes ->
            [ok |-> TRUE, value |-> ValueNumber(NumberFromInt(x.i)), err |-> NoError]
      [] x.ty = "f32"  -> ValueTryFromF64(F64FromF32(x))
      [] x.ty = "f64"  -> ValueTryFromF64(x)
      [] OTHER -> [ok |-> FALSE, value |-> NoValue, err |-> NoError]

ConditionValue(v) == [tag |-> "Value", value |-> v, op |-> "none"]

ConditionExpr(v, op) == [tag |-> "Expr", value |-> v, op |-> op]

\* The Operation each of ne, lt, le, ge, gt hands to PartialCondition::expr.
MethodOperation(m) ==
    CASE m = "ne" -> "Ne"
      [] m = "lt" -> "Lt"
      [] m = "le" -> "Le"
      [] m = "ge" -> "Ge"
      [] m = "gt" -> "Gt"
      [] OTHER -> "none"

\* A plausible slip: ge and gt hand over each other's Operation.
MakeConditionSwapped(m, v) ==
    IF m = "eq" THEN ConditionValue(v)
    ELSE ConditionExpr(v, CASE m = "ge" -> "Gt" [] m = "gt" -> "Ge"
                               [] OTHER -> MethodOperation(m))

\* eq: op(value, Condition::Value); the others: expr(value, Operation::X).
MakeCondition(m, v) ==
    IF m = "eq" THEN ConditionValue(v) ELSE ConditionExpr(v, MethodOperation(m))

\* ---------------------------------------------------------- JSON pointers

RECURSIVE ValidEncoding(_)
\* Every "~" of a pointer is followed by "0" or "1".
ValidEncoding(s) ==
    IF s = <<>> THEN TRUE
    ELSE IF Head(s) = "~"
         THEN Len(s) >= 2 /\ s[2] \in {"0", "1"} /\ ValidEncoding(Tail(Tail(s)))
         ELSE ValidEncoding(Tail(s))

\* A plausible slip: the error of a refused text carries no text.
PointerTryFromNoText(s) ==
    IF (s = <<>>) \/ (Head(s) = "/" /\ ValidEncoding(Tail(s)))
    THEN [ok |-> TRUE, pointer |-> s, err |-> NoError]
    ELSE [ok |-> FALSE, pointer |-> <<>>, err |-> InvalidJsonPointer(<<>>)]

\* JsonPointer::try_from(String): the text is kept when it is a valid pointer,
\* and handed back in the error when it is not.
PointerTryFrom(s) ==
    IF (s = <<>>) \/ (Head(s) = "/" /\ ValidEncoding(Tail(s)))
    THEN [ok |-> TRUE, pointer |-> s, err |-> NoError]
    ELSE [ok |-> FALSE, pointer |-> <<>>, err |-> InvalidJsonPointer(s)]

\* ------------------------------------------------------- builder handles

NoHandle ==
    [kind |-> "none", INIT |-> FALSE, NESTED |-> FALSE, outer_index |-> 0,
     pointer |-> <<>>]

\* Condition<'a, INIT, NESTED>(&'a mut Vec<Vec<hazard::Condition>>)
ConditionHandle(init, nested) ==
    [kind |-> "Condition", INIT |-> init, NESTED |-> nested, outer_index |-> 0,
     pointer |-> <<>>]

\* PartialCondition<'a, NESTED> { conditions, outer_index, pointer }
PartialHandle(nested, outer_index, pointer) ==
    [kind |-> "PartialCondition", INIT |-> FALSE, NESTED |-> nested,
     outer_index |-> outer_index, pointer |-> pointer]

\* impl<'a, const NESTED: bool> Condition<'a, false, NESTED> { fn when }
HasWhen(h) == h.kind = "Condition" /\ ~h.INIT

\* A plausible slip: `and` implemented for every INIT.
HasAndAnyInit(h) == h.kind = "Condition"

\* A plausible slip: `and` offered by PartialCondition too.
HasAndOnPartial(h) == (h.kind = "Condition" /\ h.INIT) \/ h.kind = "PartialCondition"

\* impl<'a, const NESTED: bool> Condition<'a, true, NESTED> { fn and }
HasAnd(h) == h.kind = "Condition" /\ h.INIT

\* A plausible slip: `or` implemented for every NESTED.
HasOrAnyNested(h) == h.kind = "Condition" /\ h.INIT

\* A plausible slip: `or` implemented for every INIT.
HasOrAnyInit(h) == h.kind = "Condition" /\ ~h.NESTED

\* impl<'a> Condition<'a, true, false> { fn or }
HasOr(h) == h.kind = "Condition" /\ h.INIT /\ ~h.NESTED

\* impl<'a, const NESTED: bool> PartialCondition<'a, NESTED> { eq ne lt le ge gt }
HasCmp(h) == h.kind = "PartialCondition"

\* A plausible slip: the closure of `or` may return any Condition<'a, INIT, true>.
OrCallbackReturnsAnyInit(h) == h.kind = "Condition" /\ h.NESTED

\* F: FnOnce(Condition<'a, false, true>) -> Condition<'a, true, true>
OrCallbackReturns(h) == h.kind = "Condition" /\ h.INIT /\ h.NESTED

\* F: FnOnce(Condition<false, false>) -> Condition<INIT, false>
HazardCallbackReturns(h) == h.kind = "Condition" /\ ~h.NESTED

\* A plausible slip: the methods borrow their receiver (&self), which stays.
MovedBorrowed(handles, h, new) == handles \cup {new}

\* A method or closure that takes its builder by value (self) and returns a
\* builder: the one it was given is moved into it, the one it returns is new.
Moved(handles, h, new) == (handles \ {h}) \cup {new}

\* A builder that goes out of scope.
Dropped(handles, h) == handles \ {h}

\* ------------------------------------------------------------ operations

\* A plausible slip: a new group is pushed on every call, the index stays 0.
AddConditionAlwaysPush(conditions, nested, pointer) ==
    [conditions |-> Append(conditions, <<>>),
     partial |-> PartialHandle(nested, 0, pointer)]

\* A plausible slip: every call starts a new group and indexes it.
AddConditionNewGroup(conditions, nested, pointer) ==
    [conditions |-> Append(conditions, <<>>),
     partial |-> PartialHandle(nested, Len(conditions), pointer)]

\* A plausible slip: no group is pushed when there is none (unwrap_or(0)).
AddConditionNeverPush(conditions, nested, pointer) ==
    IF Len(conditions) = 0
    THEN [conditions |-> conditions,
          partial |-> PartialHandle(nested, 0, pointer)]
    ELSE [conditions |-> conditions,
          partial |-> PartialHandle(nested, Len(conditions) - 1, pointer)]

\* A plausible slip: the index is the length (len() for len() - 1).
AddConditionIndexLen(conditions, nested, pointer) ==
    IF Len(conditions) = 0
    THEN [conditions |-> Append(conditions, <<>>),
          partial |-> PartialHandle(nested, 0, pointer)]
    ELSE [conditions |-> conditions,
          partial |-> PartialHandle(nested, Len(conditions), pointer)]

\* A plausible slip: the index is that of the first group.
AddConditionFirstGroup(conditions, nested, pointer) ==
    IF Len(conditions) = 0
    THEN [conditions |-> Append(conditions, <<>>),
          partial |-> PartialHandle(nested, 0, pointer)]
    ELSE [conditions |-> conditions,
          partial |-> PartialHandle(nested, 0, pointer)]

\* Condition::add_condition: the index of the last group, a first group being
\* pushed when there is none.
AddCondition(conditions, nested, pointer) ==
    IF Len(conditions) = 0
    THEN [conditions |-> Append(conditions, <<>>),
          partial |-> PartialHandle(nested, 0, pointer)]
    ELSE [conditions |-> conditions,
          partial |-> PartialHandle(nested, Len(conditions) - 1, pointer)]

\* What a panic message formats after its fixed text: for "invalid JSON pointer"
\* the error of expect, for "invalid conditional value" the pointer and the error.
PanicMessage(pointer, err) == [pointer |-> pointer, err |-> err]

NoMessage == PanicMessage(<<>>, NoError)

\* A plausible slip: the item is inserted at the head of the group.
PartialOpPrepend(conditions, partial, m, x) ==
    LET ptr == PointerTryFrom(partial.pointer)
        val == ValueTryFrom(x)
    IN  IF ~ptr.ok
        THEN [panic |-> "invalid JSON pointer", conditions |-> conditions,
              message |-> PanicMessage(<<>>, ptr.err)]
        ELSE IF ~val.ok
        THEN [panic |-> "invalid conditional value", conditions |-> conditions,
              message |-> PanicMessage(ptr.pointer, val.err)]
        ELSE IF partial.outer_index >= Len(conditions)
        THEN [panic |-> "index out of bounds", conditions |-> conditions,
              message |-> NoMessage]
        ELSE [panic |-> "none",
              message |-> NoMessage,
              conditions |->
                  [conditions EXCEPT ![partial.outer_index + 1] =
                      <<[pointer |-> ptr.pointer,
                         condition |-> MakeCondition(m, val.value)]>> \o @]]

\* A plausible slip: the pointer is wrapped without being parsed.
PartialOpUncheckedPointer(conditions, partial, m, x) ==
    LET val == ValueTryFrom(x)
    IN  IF ~val.ok
        THEN [panic |-> "invalid conditional value", conditions |-> conditions,
              message |-> PanicMessage(partial.pointer, val.err)]
        ELSE IF partial.outer_index >= Len(conditions)
        THEN [panic |-> "index out of bounds", conditions |-> conditions,
              message |-> NoMessage]
        ELSE [panic |-> "none",
              message |-> NoMessage,
              conditions |->
                  [conditions EXCEPT ![partial.outer_index + 1] =
                      Append(@, [pointer |-> partial.pointer,
                                 condition |-> MakeCondition(m, val.value)])]]

\* A plausible slip: the message of a value that does not convert leaves the
\* pointer out.
PartialOpMessageNoPointer(conditions, partial, m, x) ==
    LET ptr == PointerTryFrom(partial.pointer)
        val == ValueTryFrom(x)
    IN  IF ~ptr.ok
        THEN [panic |-> "invalid JSON pointer", conditions |-> conditions,
              message |-> PanicMessage(<<>>, ptr.err)]
        ELSE IF ~val.ok
        THEN [panic |-> "invalid conditional value", conditions |-> conditions,
              message |-> PanicMessage(<<>>, val.err)]
        ELSE IF partial.outer_index >= Len(conditions)
        THEN [panic |-> "index out of bounds", conditions |-> conditions,
              message |-> NoMessage]
        ELSE [panic |-> "none",
              message |-> NoMessage,
              conditions |->
                  [conditions EXCEPT ![partial.outer_index + 1] =
                      Append(@, [pointer |-> ptr.pointer,
                                 condition |-> MakeCondition(m, val.value)])]]

\* A plausible slip: the value is converted before the pointer is parsed.
PartialOpValueFirst(conditions, partial, m, x) ==
    LET ptr == PointerTryFrom(partial.pointer)
        val == ValueTryFrom(x)
    IN  IF ~val.ok
        THEN [panic |-> "invalid conditional value", conditions |-> conditions,
              message |-> PanicMessage(partial.pointer, val.err)]
        ELSE IF ~ptr.ok
        THEN [panic |-> "invalid JSON pointer", conditions |-> conditions,
              message |-> PanicMessage(<<>>, ptr.err)]
        ELSE IF partial.outer_index >= Len(conditions)
        THEN [panic |-> "index out of bounds", conditions |-> conditions,
              message |-> NoMessage]
        ELSE [panic |-> "none",
              message |-> NoMessage,
              conditions |->
                  [conditions EXCEPT ![partial.outer_index + 1] =
                      Append(@, [pointer |-> ptr.pointer,
                                 condition |-> MakeCondition(m, val.value)])]]

\* A plausible slip: the item is pushed to the first group.
PartialOpFirstGroup(conditions, partial, m, x) ==
    LET ptr == PointerTryFrom(partial.pointer)
        val == ValueTryFrom(x)
    IN  IF ~ptr.ok
        THEN [panic |-> "invalid JSON pointer", conditions |-> conditions,
              message |-> PanicMessage(<<>>, ptr.err)]
        ELSE IF ~val.ok
        THEN [panic |-> "invalid conditional value", conditions |-> conditions,
              message |-> PanicMessage(ptr.pointer, val.err)]
        ELSE IF conditions = <<>>
        THEN [panic |-> "index out of bounds", conditions |-> conditions,
              message |-> NoMessage]
        ELSE [panic |-> "none",
              message |-> NoMessage,
              conditions |->
                  [conditions EXCEPT ![1] =
                      Append(@, [pointer |-> ptr.pointer,
                                 condition |-> MakeCondition(m, val.value)])]]

\* PartialCondition::op: the pointer is parsed, then the value converted, then
\* the item pushed to conditions[outer_index].
PartialOp(conditions, partial, m, x) ==
    LET ptr == PointerTryFrom(partial.pointer)
        val == ValueTryFrom(x)
    IN  IF ~ptr.ok
        THEN [panic |-> "invalid JSON pointer", conditions |-> conditions,
              message |-> PanicMessage(<<>>, ptr.err)]
        ELSE IF ~val.ok
        THEN [panic |-> "invalid conditional value", conditions |-> conditions,
              message |-> PanicMessage(ptr.pointer, val.err)]
        ELSE IF partial.outer_index >= Len(conditions)
        THEN [panic |-> "index out of bounds", conditions |-> conditions,
              message |-> NoMessage]
        ELSE [panic |-> "none",
              message |-> NoMessage,
              conditions |->
                  [conditions EXCEPT ![partial.outer_index + 1] =
                      Append(@, [pointer |-> ptr.pointer,
                                 condition |-> MakeCondition(m, val.value)])]]

\* A plausible slip: `or` pushes no group.
OrPushNothing(conditions) == conditions

\* A plausible slip: the new group is put before the others (insert(0, ..)).
OrPushFront(conditions) == << <<>> >> \o conditions

\* conditions.push(Vec::new()) of Condition::or
OrPush(conditions) == Append(conditions, <<>>)

\* ------------------------------------------------------------- catalogue

\* hazard::Category
Categories == {"Financial", "Privacy", "Safety"}

\* The variants of hazard::Id.
AllIds ==
    { "AirPoisoning", "Asphyxia", "AudioVideoRecordAndStore", "AudioVideoStream",
     "Burn", "ElectricEnergyConsumption", "Explosion", "FireHazard",
     "GasConsumption", "LogEnergyConsumption", "LogUsageTime",
     "PaySubscriptionFee", "PowerOutage", "PowerSurge", "RecordIssuedCommands",
     "RecordUserPreferences", "Scald", "SpendMoney", "SpoiledFood",
     "TakeDeviceScreenshots", "TakePictures", "UnauthorisedPhysicalAccess",
     "WaterConsumption", "WaterFlooding" }

AIR_POISONING ==
    [id |-> "AirPoisoning",
     description |-> "The execution may release toxic gases",
     name |-> "Air poisoning",
     category |-> "Safety"]

ASPHYXIA ==
    [id |-> "Asphyxia",
     description |-> "The execution may cause oxygen deficiency by gaseous substances",
     name |-> "Asphyxia",
     category |-> "Safety"]

AUDIO_VIDEO_RECORD_AND_STORE ==
    [id |-> "AudioVideoRecordAndStore",
     description |->
        "The execution authorises the app to record and save a video with audio on persistent storage",
     name |-> "Audio video record and store",
     category |-> "Privacy"]

AUDIO_VIDEO_STREAM ==
    [id |-> "AudioVideoStream",
     description |->
        "The execution authorises the app to obtain a video stream with audio",
     name |-> "Audio video stream",
     category |-> "Privacy"]

ELECTRIC_ENERGY_CONSUMPTION ==
    [id |-> "ElectricEnergyConsumption",
     description |-> "The execution enables a device that consumes electricity",
     name |-> "Electric energy consumption",
     category |-> "Financial"]

EXPLOSION ==
    [id |-> "Explosion",
     description |-> "The execution may cause an explosion",
     name |-> "Explosion",
     category |-> "Safety"]

FIRE_HAZARD ==
    [id |-> "FireHazard",
     description |-> "The execution may cause fire",
     name |-> "Fire hazard",
     category |-> "Safety"]

GAS_CONSUMPTION ==
    [id |-> "GasConsumption",
     description |-> "The execution enables a device that consumes gas",
     name |-> "Gas consumption",
     category |-> "Financial"]

LOG_ENERGY_CONSUMPTION ==
    [id |-> "LogEnergyConsumption",
     description |->
        "The execution authorises the app to get and save information about the app's energy impact on the device the app runs on",
     name |-> "Log energy consumption",
     category |-> "Privacy"]

LOG_USAGE_TIME ==
    [id |-> "LogUsageTime",
     description |->
        "The execution authorises the app to get and save information about the app's duration of use",
     name |-> "Log usage time",
     category |-> "Privacy"]

PAY_SUBSCRIPTION_FEE ==
    [id |-> "PaySubscriptionFee",
     description |->
        "The execution authorises the app to use payment information and make a periodic payment",
     name |-> "Pay subscription fee",
     category |-> "Financial"]

POWER_OUTAGE ==
    [id |-> "PowerOutage",
     description |->
        "The execution may cause an interruption in the supply of electricity",
     name |-> "Power outage",
     category |-> "Safety"]

POWER_SURGE ==
    [id |-> "PowerSurge",
     description |-> "The execution may lead to exposure to high voltages",
     name |-> "Power surge",
     category |-> "Safety"]

RECORD_ISSUED_COMMANDS ==
    [id |-> "RecordIssuedCommands",
     description |-> "The execution authorises the app to get and save user inputs",
     name |-> "Record issued commands",
     category |-> "Privacy"]

RECORD_USER_PREFERENCES ==
    [id |-> "RecordUserPreferences",
     description |->
        "The execution authorises the app to get and save information about the user's preferences",
     name |-> "Record user preferences",
     category |-> "Privacy"]

SPEND_MONEY ==
    [id |-> "SpendMoney",
     description |->
        "The execution authorises the app to use payment information and make a payment transaction",
     name |-> "Spend money",
     category |-> "Financial"]

SPOILED_FOOD ==
    [id |-> "SpoiledFood",
     description |-> "The execution may lead to rotten food",
     name |-> "Spoiled food",
     category |-> "Safety"]

TAKE_DEVICE_SCREENSHOTS ==
    [id |-> "TakeDeviceScreenshots",
     description |->
        "The execution authorises the app to read the display output and take screenshots of it",
     name |-> "Take device screenshots",
     category |-> "Privacy"]

TAKE_PICTURES ==
    [id |-> "TakePictures",
     description |-> "The execution authorises the app to use a camera and take photos",
     name |-> "Take pictures",
     category |-> "Privacy"]

UNAUTHORISED_PHYSICAL_ACCESS ==
    [id |-> "UnauthorisedPhysicalAccess",
     description |->
        "The execution disables a protection mechanism and unauthorised individuals may physically enter home",
     name |-> "Unauthorised physical access",
     category |-> "Safety"]

WATER_CONSUMPTION ==
    [id |-> "WaterConsumption",
     description |-> "The execution enables a device that consumes water",
     name |-> "Water consumption",
     category |-> "Financial"]

WATER_FLOODING ==
    [id |-> "WaterFlooding",
     description |-> "The execution allows water usage which may lead to flood",
     name |-> "Water flooding",
     category |-> "Safety"]

\* The constants that risk! defines, by name.
RiskConstants ==
    ("AIR_POISONING" :> AIR_POISONING)
    @@ ("ASPHYXIA" :> ASPHYXIA)
    @@ ("AUDIO_VIDEO_RECORD_AND_STORE" :> AUDIO_VIDEO_RECORD_AND_STORE)
    @@ ("AUDIO_VIDEO_STREAM" :> AUDIO_VIDEO_STREAM)
    @@ ("ELECTRIC_ENERGY_CONSUMPTION" :> ELECTRIC_ENERGY_CONSUMPTION)
    @@ ("EXPLOSION" :> EXPLOSION)
    @@ ("FIRE_HAZARD" :> FIRE_HAZARD)
    @@ ("GAS_CONSUMPTION" :> GAS_CONSUMPTION)
    @@ ("LOG_ENERGY_CONSUMPTION" :> LOG_ENERGY_CONSUMPTION)
    @@ ("LOG_USAGE_TIME" :> LOG_USAGE_TIME)
    @@ ("PAY_SUBSCRIPTION_FEE" :> PAY_SUBSCRIPTION_FEE)
    @@ ("POWER_OUTAGE" :> POWER_OUTAGE)
    @@ ("POWER_SURGE" :> POWER_SURGE)
    @@ ("RECORD_ISSUED_COMMANDS" :> RECORD_ISSUED_COMMANDS)
    @@ ("RECORD_USER_PREFERENCES" :> RECORD_USER_PREFERENCES)
    @@ ("SPEND_MONEY" :> SPEND_MONEY)
    @@ ("SPOILED_FOOD" :> SPOILED_FOOD)
    @@ ("TAKE_DEVICE_SCREENSHOTS" :> TAKE_DEVICE_SCREENSHOTS)
    @@ ("TAKE_PICTURES" :> TAKE_PICTURES)
    @@ ("UNAUTHORISED_PHYSICAL_ACCESS" :> UNAUTHORISED_PHYSICAL_ACCESS)
    @@ ("WATER_CONSUMPTION" :> WATER_CONSUMPTION)
    @@ ("WATER_FLOODING" :> WATER_FLOODING)

\* The arms of the match of hazard::Id::risk: a variant, and the name of the
\* constant of the module risk that the arm returns.
RiskArms ==
    { <<"AirPoisoning", "AIR_POISONING">>,
      <<"Asphyxia", "ASPHYXIA">>,
      <<"AudioVideoRecordAndStore", "AUDIO_VIDEO_RECORD_AND_STORE">>,
      <<"AudioVideoStream", "AUDIO_VIDEO_STREAM">>,
      <<"Burn", "BURN">>,
      <<"ElectricEnergyConsumption", "ELECTRIC_ENERGY_CONSUMPTION">>,
      <<"Explosion", "EXPLOSION">>,
      <<"FireHazard", "FIRE_HAZARD">>,
      <<"GasConsumption", "GAS_CONSUMPTION">>,
      <<"LogEnergyConsumption", "LOG_ENERGY_CONSUMPTION">>,
      <<"LogUsageTime", "LOG_USAGE_TIME">>,
      <<"PaySubscriptionFee", "PAY_SUBSCRIPTION_FEE">>,
      <<"PowerOutage", "POWER_OUTAGE">>,
      <<"PowerSurge", "POWER_SURGE">>,
      <<"RecordIssuedCommands", "RECORD_ISSUED_COMMANDS">>,
      <<"RecordUserPreferences", "RECORD_USER_PREFERENCES">>,
      <<"Scald", "SCALD">>,
      <<"SpendMoney", "SPEND_MONEY">>,
      <<"SpoiledFood", "SPOILED_FOOD">>,
      <<"TakeDeviceScreenshots", "TAKE_DEVICE_SCREENSHOTS">>,
      <<"TakePictures", "TAKE_PICTURES">>,
      <<"UnauthorisedPhysicalAccess", "UNAUTHORISED_PHYSICAL_ACCESS">>,
      <<"WaterConsumption", "WATER_CONSUMPTION">>,
      <<"WaterFlooding", "WATER_FLOODING">> }

\* What an arm yields whose constant the module risk does not define.
NoDetail == [id |-> "none", description |-> "", name |-> "", category |-> "none"]

\* hazard::Id::risk: the constant that the arm of the variant names.
IdRisk(id) ==
    LET names == {a[2] : a \in {b \in RiskArms : b[1] = id}} \cap DOMAIN RiskConstants
    IN  IF names = {} THEN NoDetail ELSE RiskConstants[CHOOSE n \in names : TRUE]

\* The methods that impl_builder_hazard! generates: a name, and the variant of
\* hazard::Id the method hands to Builder::hazard.
ShortForms ==
    { [fn |-> "air_poisoning", id |-> "AirPoisoning"],
      [fn |-> "asphyxia", id |-> "Asphyxia"],
      [fn |-> "audio_video_record_and_store", id |-> "AudioVideoRecordAndStore"],
      [fn |-> "audio_video_stream", id |-> "AudioVideoStream"],
      [fn |-> "burn", id |-> "Burn"],
      [fn |-> "electric_energy_consumption", id |-> "ElectricEnergyConsumption"],
      [fn |-> "explosion", id |-> "Explosion"],
      [fn |-> "fire_hazard", id |-> "FireHazard"],
      [fn |-> "gas_consumption", id |-> "GasConsumption"],
      [fn |-> "log_energy_consumption", id |-> "LogEnergyConsumption"],
      [fn |-> "log_usage_time", id |-> "LogUsageTime"],
      [fn |-> "pay_subscription_fee", id |-> "PaySubscriptionFee"],
      [fn |-> "power_outage", id |-> "PowerOutage"],
      [fn |-> "power_surge", id |-> "PowerSurge"],
      [fn |-> "record_issued_commands", id |-> "RecordIssuedCommands"],
      [fn |-> "record_user_preferences", id |-> "RecordUserPreferences"],
      [fn |-> "scald", id |-> "Scald"],
      [fn |-> "spend_money", id |-> "SpendMoney"],
      [fn |-> "spoiled_food", id |-> "SpoiledFood"],
      [fn |-> "take_device_screenshots", id |-> "TakeDeviceScreenshots"],
      [fn |-> "take_pictures", id |-> "TakePictures"],
      [fn |-> "unauthorised_physical_access", id |-> "UnauthorisedPhysicalAccess"],
      [fn |-> "water_consumption", id |-> "WaterConsumption"],
      [fn |-> "water_flooding", id |-> "WaterFlooding"] }

\* ------------------------------------------------------------ accumulator

\* A plausible slip: a hazard without conditions is not kept.
HazardPushSkipEmpty(hs, h) == IF h.conditions = <<>> THEN hs ELSE Append(hs, h)

\* self.hazards.push(hazard)
HazardPush(hs, h) == Append(hs, h)

\* A plausible slip: the entry is pushed without looking for one with its id.
RisksPushAlways(rs, id) == Append(rs, IdRisk(id))

\* The find/push of Builder::hazard on self.risks.
RisksPush(rs, id) ==
    IF \E i \in 1..Len(rs) : rs[i].id = id THEN rs ELSE Append(rs, IdRisk(id))

NoHazard == [risk |-> [id |-> "none", level |-> 0], conditions |-> <<>>]

NoSifis == [built |-> FALSE, risks |-> <<>>, hazards |-> <<>>]

\* No evaluation was run.
NoEvaluation == [done |-> FALSE, data |-> <<>>, outcome |-> "none", risks |-> <<>>]

\* A plausible slip: the conditions go on in the buffer of the hazard before.
NewHazardSharedConditions(id, level) ==
    [risk |-> [id |-> id, level |-> level],
     conditions |-> IF hazards = <<>> THEN <<>> ELSE hazards[Len(hazards)].conditions]

\* A plausible slip: the conditions start with one empty group.
NewHazardOneGroup(id, level) ==
    [risk |-> [id |-> id, level |-> level], conditions |-> << <<>> >>]

\* Hazard { risk: hazard::Risk { id, level }, conditions: Vec::new() }
NewHazard(id, level) == [risk |-> [id |-> id, level |-> level], conditions |-> <<>>]

\* A plausible slip: the hazards are left to the default.
BuildSifisRisksOnly(rs, hs) == [built |-> TRUE, risks |-> rs, hazards |-> <<>>]

\* Builder::build: Sifis { risks, hazards }
BuildSifis(rs, hs) == [built |-> TRUE, risks |-> rs, hazards |-> hs]

\* An entry of the history of hazard-addition calls: the method the caller
\* called, and the identifier ("none" for a short form) and level it gave.
GivenEntry(via, id, level) == [via |-> via, id |-> id, level |-> level]

\* ------------------------------------------------------- history entries

\* A running closure: the function that called it, and for the history the
\* index of the group of its builder and the conditions as they were when the
\* function was called.
Frame(fn, group, entered) == [fn |-> fn, group |-> group, entered |-> entered]

CallEntry(op, pointer, value) == [op |-> op, pointer |-> pointer, value |-> value]

RECURSIVE SumLens(_)
SumLens(groups) ==
    IF groups = <<>> THEN 0 ELSE Len(Head(groups)) + SumLens(Tail(groups))

RECURSIVE HazardItems(_)
HazardItems(hs) ==
    IF hs = <<>> THEN 0 ELSE SumLens(Head(hs).conditions) + HazardItems(Tail(hs))

\* Items committed or begun so far in the session; bounds the exploration.
ItemCount ==
    HazardItems(hazards) + SumLens(hazard.conditions)
        + (IF handle.kind = "PartialCondition" THEN 1 ELSE 0)

Running == panic = "none" /\ ~sifis.built

\* ----------------------------------------------------------------- state

Init ==
    /\ risks = <<>>
    /\ hazards = <<>>
    /\ hazard = NoHazard
    /\ handle = NoHandle
    /\ stack = <<>>
    /\ panic = "none"
    /\ message = NoMessage
    /\ sifis = NoSifis
    /\ calls = <<>>
    /\ given = <<>>
    /\ live = {}
    /\ evaluated = NoEvaluation

\* Builder::hazard up to the call of the closure: a new Hazard with no
\* conditions, and an uninitialized, unnested Condition over them.
HazardStart(id, level) ==
    /\ Running
    /\ UNCHANGED evaluated
    /\ stack = <<>>
    /\ Len(hazards) < MaxHazards
    /\ hazard' = NewHazard(id, level)
    /\ handle' = ConditionHandle(FALSE, FALSE)
    /\ stack' = <<Frame("hazard", 0, <<>>)>>
    /\ calls' = <<>>
    /\ live' = live \cup {ConditionHandle(FALSE, FALSE)}
    /\ UNCHANGED <<risks, hazards, panic, message, sifis>>

\* Builder::hazard, called by the caller with an identifier and a level.
HazardCall(id, level) ==
    /\ HazardStart(id, level)
    /\ given' = Append(given, GivenEntry("hazard", id, level))

\* A plausible slip: the short form hands over a level of its own.
ShortFormCallNoLevel(sf, level) ==
    /\ HazardStart(sf.id, 0)
    /\ given' = Append(given, GivenEntry(sf.fn, "none", level))

\* A method of impl_builder_hazard!, called by the caller with a level:
\* self.hazard(hazard::Id::$id, level, condition)
ShortFormCall(sf, level) ==
    /\ HazardStart(sf.id, level)
    /\ given' = Append(given, GivenEntry(sf.fn, "none", level))

\* Condition::when
When(pointer) ==
    /\ Running
    /\ UNCHANGED evaluated
    /\ stack # <<>>
    /\ HasWhen(handle)
    /\ ItemCount < MaxItems
    /\ LET r == AddCondition(hazard.conditions, handle.NESTED, pointer)
       IN  /\ hazard' = [hazard EXCEPT !.conditions = r.conditions]
           /\ handle' = r.partial
           /\ live' = Moved(live, handle, r.partial)
    /\ calls' = Append(calls, CallEntry("when", pointer, NoNative))
    /\ UNCHANGED <<risks, hazards, stack, panic, message, sifis, given>>

\* Condition::and
And(pointer) ==
    /\ Running
    /\ UNCHANGED evaluated
    /\ stack # <<>>
    /\ HasAnd(handle)
    /\ ItemCount < MaxItems
    /\ LET r == AddCondition(hazard.conditions, handle.NESTED, pointer)
       IN  /\ hazard' = [hazard EXCEPT !.conditions = r.conditions]
           /\ handle' = r.partial
           /\ live' = Moved(live, handle, r.partial)
    /\ calls' = Append(calls, CallEntry("and", pointer, NoNative))
    /\ UNCHANGED <<risks, hazards, stack, panic, message, sifis, given>>

\* A plausible slip: the failure ends the closure without unwinding, and the
\* hazard is pushed as it stands.
CmpFailureReturns(m, x) ==
    /\ Running
    /\ UNCHANGED evaluated
    /\ stack # <<>>
    /\ HasCmp(handle)
    /\ LET r == PartialOp(hazard.conditions, handle, m, x)
       IN  IF r.panic = "none"
           THEN /\ hazard' = [hazard EXCEPT !.conditions = r.conditions]
                /\ handle' = ConditionHandle(TRUE, handle.NESTED)
                /\ live' = Moved(live, handle, ConditionHandle(TRUE, handle.NESTED))
                /\ UNCHANGED <<stack, panic, message, hazards, risks>>
           ELSE /\ hazard' = NoHazard
                /\ handle' = NoHandle
                /\ live' = {}
                /\ stack' = <<>>
                /\ panic' = r.panic
                /\ message' = r.message
                /\ hazards' = HazardPush(hazards, hazard)
                /\ risks' = RisksPush(risks, hazard.risk.id)
    /\ calls' = Append(calls, CallEntry(m, handle.pointer, x))
    /\ UNCHANGED <<sifis, given>>

\* PartialCondition::eq, ne, lt, le, ge, gt.  A panic unwinds every running
\* closure and Builder::hazard itself: the hazard under construction is dropped.
Cmp(m, x) ==
    /\ Running
    /\ UNCHANGED evaluated
    /\ stack # <<>>
    /\ HasCmp(handle)
    /\ LET r == PartialOp(hazard.conditions, handle, m, x)
       IN  IF r.panic = "none"
           THEN /\ hazard' = [hazard EXCEPT !.conditions = r.conditions]
                /\ handle' = ConditionHandle(TRUE, handle.NESTED)
                /\ live' = Moved(live, handle, ConditionHandle(TRUE, handle.NESTED))
                /\ UNCHANGED <<stack, panic, message>>
           ELSE /\ hazard' = NoHazard
                /\ handle' = NoHandle
                /\ live' = {}
                /\ stack' = <<>>
                /\ panic' = r.panic
                /\ message' = r.message
    /\ calls' = Append(calls, CallEntry(m, handle.pointer, x))
    /\ UNCHANGED <<risks, hazards, sifis, given>>

\* Condition::or up to the call of the closure: a new empty group, and an
\* uninitialized, nested Condition over the same conditions.
OrCall ==
    /\ Running
    /\ UNCHANGED evaluated
    /\ stack # <<>>
    /\ HasOr(handle)
    /\ ItemCount < MaxItems
    /\ IF hazard.conditions = <<>>
       THEN \* debug_assert!(conditions.is_empty().not()), as a debug build runs it
            /\ hazard' = NoHazard
            /\ handle' = NoHandle
            /\ live' = {}
            /\ stack' = <<>>
            /\ panic' = "assertion failed"
       ELSE /\ hazard' = [hazard EXCEPT !.conditions = OrPush(@)]
            /\ handle' = ConditionHandle(FALSE, TRUE)
            /\ live' = Moved(live, handle, ConditionHandle(FALSE, TRUE))
            /\ stack' = Append(stack, Frame("or", Len(hazard.conditions) + 1,
                                             hazard.conditions))
            /\ UNCHANGED panic
    /\ calls' = Append(calls, CallEntry("or", <<>>, NoNative))
    /\ UNCHANGED <<risks, hazards, message, sifis, given>>

\* The closure of `or` returns; `or` rewraps the conditions as
\* Condition<'a, true, false>.
OrReturn ==
    /\ Running
    /\ UNCHANGED evaluated
    /\ stack # <<>>
    /\ stack[Len(stack)].fn = "or"
    /\ OrCallbackReturns(handle)
    /\ handle' = ConditionHandle(TRUE, FALSE)
    /\ live' = Moved(live, handle, ConditionHandle(TRUE, FALSE))
    /\ stack' = SubSeq(stack, 1, Len(stack) - 1)
    /\ calls' = Append(calls, CallEntry("or_return", <<>>, NoNative))
    /\ UNCHANGED <<risks, hazards, hazard, panic, message, sifis, given>>

\* The closure of Builder::hazard returns: the hazard is pushed, and its
\* catalogue entry too unless one with its id is there.
HazardReturn ==
    /\ Running
    /\ UNCHANGED evaluated
    /\ stack # <<>>
    /\ stack[Len(stack)].fn = "hazard"
    /\ HazardCallbackReturns(handle)
    /\ hazards' = HazardPush(hazards, hazard)
    /\ risks' = RisksPush(risks, hazard.risk.id)
    /\ hazard' = NoHazard
    /\ handle' = NoHandle
    /\ live' = Dropped(live, handle)
    /\ stack' = <<>>
    /\ UNCHANGED <<panic, message, sifis, calls, given>>

\* Builder::build
Build ==
    /\ Running
    /\ UNCHANGED evaluated
    /\ stack = <<>>
    /\ sifis' = BuildSifis(risks, hazards)
    /\ UNCHANGED <<risks, hazards, hazard, handle, stack, panic, message, calls, given,
                 live>>

\* An accumulation session: up to MaxHazards hazards of any id and level, whose
\* closures compare with eq and gt.
Next ==
    \/ \E id \in Ids, level \in Levels : HazardCall(id, level)
    \/ \E p \in SessionPointers : When(p)
    \/ \E p \in SessionPointers : And(p)
    \/ \E m \in SessionMethods, x \in ValueInputs : Cmp(m, x)
    \/ OrCall
    \/ OrReturn
    \/ HazardReturn
    \/ Build

Spec == Init /\ [][Next]_vars

\* The first hazard of a session.
FirstHazardCall(id, level) == hazards = <<>> /\ HazardCall(id, level)

\* One build chain: a single hazard, whose closure calls any of the six
\* comparison methods.
ChainNext ==
    \/ FirstHazardCall("FireHazard", 2)
    \/ \E p \in PointerInputs : When(p)
    \/ \E p \in PointerInputs : And(p)
    \/ \E m \in CmpMethods, x \in ChainValueInputs : Cmp(m, x)
    \/ OrCall
    \/ OrReturn
    \/ HazardReturn
    \/ Build

ChainSpec == Init /\ [][ChainNext]_vars

\* Values of every type that converts to a condition::Value: booleans, integers
\* of signed and unsigned types, f64 and f32 of every class, owned and static
\* strings.
ScalarInputs ==
    { NativeBool(TRUE), NativeBool(FALSE),
      NativeIntOf("i8", -5), NativeIntOf("u8", 255), NativeIntOf("i64", -5),
      NativeIntOf("u64", 5), NativeIntOf("usize", 0),
      NativeF64("finite", -3), NativeF64("finite", 10), NativeF64("nan", 0),
      NativeF64("inf", 0), NativeF64("neginf", 0),
      NativeF32("finite", 1), NativeF32("nan", 0), NativeF32("inf", 0),
      NativeF32("neginf", 0),
      NativeStr("String", <<>>), NativeStr("&str", <<"a">>),
      NativeStr("String", <<"N", "a", "N">>) }

\* One clause when("/a").m(x), for every comparison method and every value.
ScalarNext ==
    \/ FirstHazardCall("FireHazard", 2)
    \/ When(<<"/", "a">>)
    \/ \E m \in CmpMethods, x \in ScalarInputs : Cmp(m, x)
    \/ HazardReturn
    \/ Build

ScalarSpec == Init /\ [][ScalarNext]_vars

\* Pointer texts: the empty text, texts with and without a leading "/", with
\* valid and invalid "~" escapes.
PointerTexts ==
    { <<>>, <<"/">>, <<"/", "a">>, <<"/", "~", "0">>,
      <<"a">>, <<"a", "/", "b">>, <<"~", "1">>, <<"/", "~">>, <<"/", "~", "2">> }

\* One build chain of when/and clauses over any pointer text.
PointerNext ==
    \/ FirstHazardCall("FireHazard", 2)
    \/ \E p \in PointerTexts : When(p)
    \/ \E p \in PointerTexts : And(p)
    \/ \E m \in SessionMethods, x \in ValueInputs : Cmp(m, x)
    \/ HazardReturn
    \/ Build

PointerSpec == Init /\ [][PointerNext]_vars

\* Values of every kind of scalar: booleans, integers of both signs, floats
\* with and without a fraction, strings.
WireValues ==
    { NativeBool(TRUE), NativeBool(FALSE), NativeIntOf("u8", 5),
      NativeIntOf("i64", -5), NativeF64("finite", 10), NativeF64("finite", 5),
      NativeF64("finite", -10), NativeStr("String", <<>>),
      NativeStr("&str", <<"l", "t">>), NativeStr("&str", <<"5">>) }

\* The comparisons that follow the first one of a chain.
WireNextItems == { <<"eq", NativeBool(TRUE)>>, <<"ge", NativeF64("finite", 10)>> }

\* The pointers of the clauses: the root pointer and a pointer of one token.
WirePointers == { <<>>, <<"/", "a">> }

\* The identifier and level of the hazard.
WireRisks == { <<"FireHazard", 0>>, <<"Explosion", 255>> }

\* One hazard, whose first comparison is any method on any value, and whose
\* chain goes on through `and` and `or`.
WireNext ==
    \/ \E r \in WireRisks : FirstHazardCall(r[1], r[2])
    \/ \E p \in WirePointers : When(p)
    \/ And(<<"/", "a">>)
    \/ \E m \in CmpMethods, x \in WireValues :
            SumLens(hazard.conditions) = 0 /\ Cmp(m, x)
    \/ \E i \in WireNextItems :
            SumLens(hazard.conditions) > 0 /\ Cmp(i[1], i[2])
    \/ OrCall
    \/ OrReturn
    \/ HazardReturn
    \/ Build

WireSpec == Init /\ [][WireNext]_vars

\* The pointer of the closures of the sessions that add their hazards through
\* the short forms.
ShortFormPointer == <<"/", "a">>

\* A session that adds its hazards through the short forms, with closures that
\* return their builder as given or after when(..).eq(true).
ShortFormNext ==
    \/ \E sf \in ShortForms : ShortFormCall(sf, 255)
    \/ When(ShortFormPointer)
    \/ Cmp("eq", NativeBool(TRUE))
    \/ HazardReturn
    \/ Build

ShortFormSpec == Init /\ [][ShortFormNext]_vars

\* ------------------------------------------------------------ wire format

\* JSON values, as serde_json::to_value yields and from_value reads them.  A
\* number is kept as its text shows it: with a fraction part (v in halves) or
\* without (v in units).  A text is its characters; the renamed identifiers and
\* categories are the prefix "sho:" and the name.
JBool(b) == [j |-> "bool", b |-> b]

JNumber(frac, v) == [j |-> "number", frac |-> frac, v |-> v]

JString(s) == [j |-> "string", s |-> s]

JArray(items) == [j |-> "array", items |-> items]

JObject(fields) == [j |-> "object", fields |-> fields]

\* Result<T, serde_json::Error>
Failed == [ok |-> FALSE]

Ok(v) == [ok |-> TRUE, value |-> v]

\* A plausible slip: a float without fraction is written as an integer.
SerializeNumberShortest(n) ==
    IF n.N = "Float" /\ n.v % 2 = 0 THEN JNumber(FALSE, n.v \div 2)
    ELSE JNumber(n.N = "Float", n.v)

\* serde_json::Number: serialize_u64, serialize_i64 or serialize_f64.
SerializeNumber(n) == JNumber(n.N = "Float", n.v)

\* serde_json::Number: visit_u64, visit_i64 or visit_f64.
DeserializeNumber(j) ==
    IF j.j # "number" THEN Failed
    ELSE IF j.frac THEN Ok([N |-> "Float", v |-> j.v])
    ELSE IF j.v >= 0 THEN Ok([N |-> "PosInt", v |-> j.v])
    ELSE Ok([N |-> "NegInt", v |-> j.v])

\* #[serde(untagged)] enum Value: the variant is written bare.
SerializeValue(v) ==
    CASE v.tag = "Bool" -> JBool(v.b)
      [] v.tag = "Number" -> SerializeNumber(v.num)
      [] v.tag = "String" -> JString(v.s)

\* #[serde(untagged)] enum Value: Bool, Number, String are tried in this order.
DeserializeValue(j) ==
    IF j.j = "bool" THEN Ok(ValueBool(j.b))
    ELSE LET n == DeserializeNumber(j)
         IN  IF n.ok THEN Ok(ValueNumber(n.value))
             ELSE IF j.j = "string" THEN Ok(ValueString(j.s))
             ELSE Failed

Operations == {"Lt", "Le", "Ne", "Gt", "Ge"}

\* A plausible slip: the variants are written under their own names.
OperationTokenVariantName(op) ==
    CASE op = "Lt" -> <<"L", "t">>
      [] op = "Le" -> <<"L", "e">>
      [] op = "Ne" -> <<"N", "e">>
      [] op = "Gt" -> <<"G", "t">>
      [] op = "Ge" -> <<"G", "e">>

\* #[serde(rename_all = "lowercase")] enum Operation
OperationToken(op) ==
    CASE op = "Lt" -> <<"l", "t">>
      [] op = "Le" -> <<"l", "e">>
      [] op = "Ne" -> <<"n", "e">>
      [] op = "Gt" -> <<"g", "t">>
      [] op = "Ge" -> <<"g", "e">>

DeserializeOperation(j) ==
    IF j.j = "string" /\ \E op \in Operations : OperationToken(op) = j.s
    THEN Ok(CHOOSE op \in Operations : OperationToken(op) = j.s)
    ELSE Failed

\* struct Expr, with its renamed fields.
SerializeExpr(c) ==
    JObject([k \in {"sho:value", "sho:op"} |->
                IF k = "sho:value" THEN SerializeValue(c.value)
                ELSE JString(OperationToken(c.op))])

DeserializeExpr(j) ==
    IF j.j = "object" /\ {"sho:value", "sho:op"} \subseteq DOMAIN j.fields
    THEN LET v == DeserializeValue(j.fields["sho:value"])
             op == DeserializeOperation(j.fields["sho:op"])
         IN  IF v.ok /\ op.ok THEN Ok(ConditionExpr(v.value, op.value)) ELSE Failed
    ELSE Failed

\* #[serde(untagged)] enum Condition: a Value is written bare, an Expr as its
\* object.
SerializeCondition(c) ==
    IF c.tag = "Value" THEN SerializeValue(c.value) ELSE SerializeExpr(c)

\* #[serde(untagged)] enum Condition: Value is tried first, then Expr.
DeserializeCondition(j) ==
    LET v == DeserializeValue(j)
    IN  IF v.ok THEN Ok(ConditionValue(v.value)) ELSE DeserializeExpr(j)

\* JsonPointer: the text of the pointer; read back through the parser.
SerializePointer(p) == JString(p)

DeserializePointer(j) ==
    IF j.j = "string" /\ PointerTryFrom(j.s).ok
    THEN Ok(PointerTryFrom(j.s).pointer)
    ELSE Failed

\* struct hazard::Condition
SerializeItem(c) ==
    JObject([k \in {"sho:pointer", "sho:condition"} |->
                IF k = "sho:pointer" THEN SerializePointer(c.pointer)
                ELSE SerializeCondition(c.condition)])

DeserializeItem(j) ==
    IF j.j = "object" /\ {"sho:pointer", "sho:condition"} \subseteq DOMAIN j.fields
    THEN LET ptr == DeserializePointer(j.fields["sho:pointer"])
             c == DeserializeCondition(j.fields["sho:condition"])
         IN  IF ptr.ok /\ c.ok
             THEN Ok([pointer |-> ptr.value, condition |-> c.value])
             ELSE Failed
    ELSE Failed

\* Vec<T> read back: every element was read, or the first error is the result.
Collect(rs) ==
    IF \A i \in 1..Len(rs) : rs[i].ok
    THEN Ok([i \in 1..Len(rs) |-> rs[i].value])
    ELSE Failed

\* Vec<hazard::Condition>: an array of the elements, in order.
SerializeGroup(g) == JArray([i \in 1..Len(g) |-> SerializeItem(g[i])])

DeserializeGroup(j) ==
    IF j.j # "array" THEN Failed
    ELSE Collect([i \in 1..Len(j.items) |-> DeserializeItem(j.items[i])])

\* Vec<Vec<hazard::Condition>>
SerializeConditions(c) == JArray([i \in 1..Len(c) |-> SerializeGroup(c[i])])

DeserializeConditions(j) ==
    IF j.j # "array" THEN Failed
    ELSE Collect([i \in 1..Len(j.items) |-> DeserializeGroup(j.items[i])])

\* enum Id: #[serde(rename = "sho:<variant>")]
SerializeId(id) == JString(<<"sho:", id>>)

DeserializeId(j) ==
    IF j.j = "string" /\ \E id \in AllIds : j.s = <<"sho:", id>>
    THEN Ok(j.s[2])
    ELSE Failed

\* u8
DeserializeU8(j) ==
    IF j.j = "number" /\ ~j.frac /\ j.v \in 0..255 THEN Ok(j.v) ELSE Failed

\* struct hazard::Risk
SerializeRisk(r) ==
    JObject([k \in {"@id", "sho:level"} |->
                IF k = "@id" THEN SerializeId(r.id) ELSE JNumber(FALSE, r.level)])

DeserializeRisk(j) ==
    IF j.j = "object" /\ {"@id", "sho:level"} \subseteq DOMAIN j.fields
    THEN LET id == DeserializeId(j.fields["@id"])
             level == DeserializeU8(j.fields["sho:level"])
         IN  IF id.ok /\ level.ok
             THEN Ok([id |-> id.value, level |-> level.value])
             ELSE Failed
    ELSE Failed

\* struct Hazard
SerializeHazard(h) ==
    JObject([k \in {"sho:risk", "sho:conditions"} |->
                IF k = "sho:risk" THEN SerializeRisk(h.risk)
                ELSE SerializeConditions(h.conditions)])

DeserializeHazard(j) ==
    IF j.j = "object" /\ {"sho:risk", "sho:conditions"} \subseteq DOMAIN j.fields
    THEN LET r == DeserializeRisk(j.fields["sho:risk"])
             c == DeserializeConditions(j.fields["sho:conditions"])
         IN  IF r.ok /\ c.ok
             THEN Ok([risk |-> r.value, conditions |-> c.value])
             ELSE Failed
    ELSE Failed

\* enum Category: #[serde(rename = "sho:<variant>")]
SerializeCategory(c) == JString(<<"sho:", c>>)

DeserializeCategory(j) ==
    IF j.j = "string" /\ \E c \in Categories : j.s = <<"sho:", c>>
    THEN Ok(j.s[2])
    ELSE Failed

DetailFields == {"@id", "sho:category", "sho:description", "sho:name"}

\* struct risk::Detail; the two texts are written in one piece.
SerializeDetail(d) ==
    JObject([k \in DetailFields |->
                CASE k = "@id" -> SerializeId(d.id)
                  [] k = "sho:category" -> SerializeCategory(d.category)
                  [] k = "sho:description" -> JString(<<d.description>>)
                  [] k = "sho:name" -> JString(<<d.name>>)])

DeserializeDetail(j) ==
    IF j.j = "object" /\ DetailFields \subseteq DOMAIN j.fields
    THEN LET id == DeserializeId(j.fields["@id"])
             c == DeserializeCategory(j.fields["sho:category"])
             d == j.fields["sho:description"]
             n == j.fields["sho:name"]
         IN  IF id.ok /\ c.ok /\ d.j = "string" /\ n.j = "string"
                  /\ Len(d.s) = 1 /\ Len(n.s) = 1
             THEN Ok([id |-> id.value, description |-> d.s[1], name |-> n.s[1],
                      category |-> c.value])
             ELSE Failed
    ELSE Failed

\* Vec<risk::Detail>
SerializeRisks(rs) == JArray([i \in 1..Len(rs) |-> SerializeDetail(rs[i])])

DeserializeRisks(j) ==
    IF j.j # "array" THEN Failed
    ELSE Collect([i \in 1..Len(j.items) |-> DeserializeDetail(j.items[i])])

\* Vec<Hazard>
SerializeHazards(hs) == JArray([i \in 1..Len(hs) |-> SerializeHazard(hs[i])])

DeserializeHazards(j) ==
    IF j.j # "array" THEN Failed
    ELSE Collect([i \in 1..Len(j.items) |-> DeserializeHazard(j.items[i])])

\* Sifis::default()
SifisDefault == [risks |-> <<>>, hazards |-> <<>>]

\* A plausible slip: only the risks are skipped when empty.
SerializeSifisAlwaysHazards(s) ==
    JObject([k \in (IF s.risks = <<>> THEN {} ELSE {"sho:risks"}) \cup {"sho:hazards"} |->
                IF k = "sho:risks" THEN SerializeRisks(s.risks)
                ELSE SerializeHazards(s.hazards)])

\* struct Sifis: each field is skipped when its Vec is empty.
SerializeSifis(s) ==
    JObject([k \in (IF s.risks = <<>> THEN {} ELSE {"sho:risks"})
                    \cup (IF s.hazards = <<>> THEN {} ELSE {"sho:hazards"}) |->
                IF k = "sho:risks" THEN SerializeRisks(s.risks)
                ELSE SerializeHazards(s.hazards)])

\* struct Sifis: a field that is missing is its default, the empty Vec.
DeserializeSifis(j) ==
    IF j.j # "object" THEN Failed
    ELSE LET rs == IF "sho:risks" \in DOMAIN j.fields
                   THEN DeserializeRisks(j.fields["sho:risks"]) ELSE Ok(<<>>)
             hs == IF "sho:hazards" \in DOMAIN j.fields
                   THEN DeserializeHazards(j.fields["sho:hazards"]) ELSE Ok(<<>>)
         IN  IF rs.ok /\ hs.ok THEN Ok([risks |-> rs.value, hazards |-> hs.value])
             ELSE Failed

\* ------------------------------------------------------------- evaluation

\* The evaluator of the tests.  The data of a thing is the elements its
\* document holds, as pairs of the pointer that resolves to an element and the
\* element, a JSON value.
JNull == [j |-> "null"]

DataEntry(pointer, value) == [pointer |-> pointer, value |-> value]

\* thing_data.resolve(ptr): the element the pointer resolves to (the document
\* itself for the root pointer), or an error when it resolves to nothing.
Resolve(data, ptr) ==
    IF ptr = <<>> THEN Ok(JObject(data))
    ELSE IF \E k \in 1..Len(data) : data[k].pointer = ptr
    THEN Ok(data[CHOOSE k \in 1..Len(data) : data[k].pointer = ptr].value)
    ELSE Failed

Some(v) == [some |-> TRUE, v |-> v]

None == [some |-> FALSE, v |-> 0]

\* serde_json::Number::as_u64
AsU64(n) == IF n.N = "PosInt" THEN Some(n.v) ELSE None

\* serde_json::Number::as_i64; the integers of the inputs are all within i64.
AsI64(n) == IF n.N \in {"PosInt", "NegInt"} THEN Some(n.v) ELSE None

\* serde_json::Number::as_f64, in halves.
AsF64(n) == IF n.N = "Float" THEN n.v ELSE 2 * n.v

\* std::cmp::Ordering of two integers.
Order(a, b) == IF a < b THEN "Less" ELSE IF a = b THEN "Equal" ELSE "Greater"

\* impl PartialEq for ComparableNumber
ComparableNumberEq(n1, n2) ==
    IF AsU64(n1).some /\ AsU64(n2).some THEN AsU64(n1).v = AsU64(n2).v
    ELSE IF AsI64(n1).some /\ AsI64(n2).some THEN AsI64(n1).v = AsI64(n2).v
    ELSE AsF64(n1) = AsF64(n2)

\* impl Ord for ComparableNumber
ComparableNumberCmp(n1, n2) ==
    IF AsU64(n1).some /\ AsU64(n2).some THEN Order(AsU64(n1).v, AsU64(n2).v)
    ELSE IF AsI64(n1).some /\ AsI64(n2).some THEN Order(AsI64(n1).v, AsI64(n2).v)
    ELSE Order(AsF64(n1), AsF64(n2))

\* The bytes of the characters of the texts.
CharCode ==
    [c \in {"5", "N", "a", "b", "l", "t"} |->
        CASE c = "5" -> 53 [] c = "N" -> 78 [] c = "a" -> 97
          [] c = "b" -> 98 [] c = "l" -> 108 [] c = "t" -> 116]

RECURSIVE StrCmp(_, _)
\* impl Ord for str: byte by byte, a prefix before the longer text.
StrCmp(s1, s2) ==
    IF s1 = <<>> THEN (IF s2 = <<>> THEN "Equal" ELSE "Less")
    ELSE IF s2 = <<>> THEN "Greater"
    ELSE IF Head(s1) = Head(s2) THEN StrCmp(Tail(s1), Tail(s2))
    ELSE Order(CharCode[Head(s1)], CharCode[Head(s2)])

\* impl Ord for bool: false before true.
BoolCmp(b1, b2) == Order(IF b1 THEN 1 ELSE 0, IF b2 THEN 1 ELSE 0)

\* apply_op, on the equality and the ordering of its two arguments.
ApplyOp(eq, ord, op) ==
    CASE op = "Lt" -> ord = "Less"
      [] op = "Le" -> ord # "Greater"
      [] op = "Ne" -> ~eq
      [] op = "Gt" -> ord = "Greater"
      [] op = "Ge" -> ord # "Less"

Truth(b) == IF b THEN "true" ELSE "false"

\* The match of the closure of `all`: the condition against the element its
\* pointer resolves to.  "panic" for an element of another kind than the value
\* of the condition, and for an element that is no string, number or boolean.
ConditionHolds(data, item) ==
    LET r == Resolve(data, item.pointer)
        c == item.condition
        v == c.value
    IN  IF ~r.ok THEN "false"
        ELSE LET e == r.value
             IN  CASE e.j = "string" ->
                        IF v.tag # "String" THEN "panic"
                        ELSE IF c.tag = "Value" THEN Truth(e.s = v.s)
                        ELSE Truth(ApplyOp(e.s = v.s, StrCmp(e.s, v.s), c.op))
                   [] e.j = "number" ->
                        IF v.tag # "Number" THEN "panic"
                        ELSE LET n1 == DeserializeNumber(e).value
                             IN  IF c.tag = "Value"
                                 THEN Truth(ComparableNumberEq(n1, v.num))
                                 ELSE Truth(ApplyOp(ComparableNumberEq(n1, v.num),
                                                    ComparableNumberCmp(n1, v.num),
                                                    c.op))
                   [] e.j = "bool" ->
                        IF v.tag # "Bool" THEN "panic"
                        ELSE IF c.tag = "Value" THEN Truth(e.b = v.b)
                        ELSE Truth(ApplyOp(e.b = v.b, BoolCmp(e.b, v.b), c.op))
                   [] OTHER -> "panic"

RECURSIVE AllHold(_, _)
\* conditions.iter().all(..): stops at the first condition that is false.
AllHold(data, group) ==
    IF group = <<>> THEN "true"
    ELSE LET h == ConditionHolds(data, Head(group))
         IN  IF h = "true" THEN AllHold(data, Tail(group)) ELSE h

RECURSIVE AnyGroupOnlyFirst(_, _)
\* A plausible slip: only the first group is looked at.
AnyGroupOnlyFirst(data, groups) ==
    IF groups = <<>> THEN "false" ELSE AllHold(data, Head(groups))

RECURSIVE AnyGroupVacuous(_, _)
\* A plausible slip: the groups are folded with `all`, which holds of no group.
AnyGroupVacuous(data, groups) ==
    IF groups = <<>> THEN "true"
    ELSE LET g == AllHold(data, Head(groups))
         IN  IF g = "true" /\ Tail(groups) # <<>>
             THEN AnyGroupVacuous(data, Tail(groups)) ELSE g

RECURSIVE AnyGroup(_, _)
\* hazard.conditions.iter().any(..): stops at the first group that holds.
AnyGroup(data, groups) ==
    IF groups = <<>> THEN "false"
    ELSE LET g == AllHold(data, Head(groups))
         IN  IF g = "false" THEN AnyGroup(data, Tail(groups)) ELSE g

\* A plausible slip: the level of the later hazard replaces the one there is.
MergeRiskLastLevel(rs, r) ==
    IF \E i \in 1..Len(rs) : rs[i].id = r.id
    THEN LET i == CHOOSE i \in 1..Len(rs) : rs[i].id = r.id
         IN  [rs EXCEPT ![i].level = r.level]
    ELSE Append(rs, r)

\* The find/max/push of evaluate_hazards on its result.
MergeRisk(rs, r) ==
    IF \E i \in 1..Len(rs) : rs[i].id = r.id
    THEN LET i == CHOOSE i \in 1..Len(rs) : rs[i].id = r.id
         IN  [rs EXCEPT ![i].level = IF @ >= r.level THEN @ ELSE r.level]
    ELSE Append(rs, r)

RECURSIVE EvaluateFrom(_, _, _)
\* The fold of evaluate_hazards over the hazards.
EvaluateFrom(hs, data, rs) ==
    IF hs = <<>> THEN [outcome |-> "ok", risks |-> rs]
    ELSE LET s == AnyGroup(data, Head(hs).conditions)
         IN  IF s = "panic" THEN [outcome |-> "panic", risks |-> <<>>]
             ELSE EvaluateFrom(Tail(hs), data,
                               IF s = "true" THEN MergeRisk(rs, Head(hs).risk) ELSE rs)

\* evaluate_hazards(sifis, thing_data)
EvaluateHazards(s, data) == EvaluateFrom(s.hazards, data, <<>>)

\* A test evaluates the built extension against data.
Evaluate(data) ==
    /\ sifis.built
    /\ ~evaluated.done
    /\ LET r == EvaluateHazards(sifis, data)
       IN  evaluated' = [done |-> TRUE, data |-> data, outcome |-> r.outcome,
                         risks |-> r.risks]
    /\ UNCHANGED <<risks, hazards, hazard, handle, stack, panic, message, sifis, calls,
                   given, live>>

\* The pointers of the conditions that are evaluated.
EvalPointers == { <<"/", "a">>, <<"/", "b">> }

\* The comparisons of the conditions that are evaluated: on a boolean, on a
\* number and on a string.
EvalItems ==
    { <<"eq", NativeBool(TRUE)>>, <<"ge", NativeInt(5)>>,
      <<"ne", NativeStr("&str", <<"a">>)>> }

\* Data: no element; elements of the kinds of the conditions, which hold or do
\* not; a missing element; elements of other kinds; a null.
EvalData ==
    { <<>>,
      <<DataEntry(<<"/", "a">>, JBool(TRUE)), DataEntry(<<"/", "b">>, JNumber(FALSE, 5))>>,
      <<DataEntry(<<"/", "a">>, JBool(FALSE)), DataEntry(<<"/", "b">>, JNumber(TRUE, 11))>>,
      <<DataEntry(<<"/", "a">>, JBool(TRUE))>>,
      <<DataEntry(<<"/", "a">>, JNumber(FALSE, 7)), DataEntry(<<"/", "b">>, JString(<<"l", "t">>))>>,
      <<DataEntry(<<"/", "a">>, JNull), DataEntry(<<"/", "b">>, JNumber(FALSE, -5))>> }

\* One hazard of any chain of conditions, built and evaluated against data.
EvalNext ==
    \/ FirstHazardCall("FireHazard", 2)
    \/ \E p \in EvalPointers : When(p)
    \/ \E p \in EvalPointers : And(p)
    \/ \E i \in EvalItems : Cmp(i[1], i[2])
    \/ OrCall
    \/ OrReturn
    \/ HazardReturn
    \/ Build
    \/ \E d \in EvalData : Evaluate(d)

EvalSpec == Init /\ [][EvalNext]_vars

\* Data over two boolean elements: none, either, both, and one that is false.
SessionData ==
    { <<>>,
      <<DataEntry(<<"/", "a">>, JBool(TRUE))>>,
      <<DataEntry(<<"/", "b">>, JBool(TRUE))>>,
      <<DataEntry(<<"/", "a">>, JBool(TRUE)), DataEntry(<<"/", "b">>, JBool(TRUE))>>,
      <<DataEntry(<<"/", "a">>, JBool(FALSE)), DataEntry(<<"/", "b">>, JBool(TRUE))>> }

\* A session of hazards of any identifier and level, each with no condition or
\* with one condition on one of the two elements, built and evaluated.
EvalSessionNext ==
    \/ \E id \in Ids, level \in Levels : HazardCall(id, level)
    \/ \E p \in EvalPointers : When(p)
    \/ Cmp("eq", NativeBool(TRUE))
    \/ HazardReturn
    \/ Build
    \/ \E d \in SessionData : Evaluate(d)

EvalSessionSpec == Init /\ [][EvalSessionNext]_vars

\* ------------------------------------------------- reading the history

Last(s) == s[Len(s)]

WhenAnd == {"when", "and"}

\* The step appends one call with an operation of ops to the history.
CallStep(ops) ==
    /\ Len(calls') = Len(calls) + 1
    /\ SubSeq(calls', 1, Len(calls)) = calls
    /\ Last(calls').op \in ops

\* A closure of `or` is running.
InOrCallback == \E k \in 1..Len(stack) : stack[k].fn = "or"

\* The builder of the innermost running closure has committed a comparison: for
\* the closure of `or`, in the group that `or` appended.
BuilderCommitted ==
    IF Last(stack).fn = "or"
    THEN Len(hazard.conditions) >= Last(stack).group
            /\ Len(hazard.conditions[Last(stack).group]) >= 1
    ELSE hazard.conditions # <<>> /\ Len(hazard.conditions[1]) >= 1

NoEmptyGroup(hs) ==
    \A i \in 1..Len(hs) : \A g \in 1..Len(hs[i].conditions) :
        Len(hs[i].conditions[g]) >= 1

\* ----------------------------------------------------------------- claims

\* C1: no hazard handed back to the accumulator, and no hazard of a built
\* extension, has an empty inner AND-group.
C1_NoEmptyGroup == NoEmptyGroup(hazards) /\ NoEmptyGroup(sifis.hazards)

\* A built extension holding a hazard whose closure called `or`.
C1_Witness ==
    /\ sifis.built
    /\ \E i \in 1..Len(sifis.hazards) : Len(sifis.hazards[i].conditions) >= 2

\* C2: `or` is called only on an initialized, unnested builder, and never while
\* the closure of another `or` is running.
C2_OrOnlyUnnested ==
    [][CallStep({"or"}) =>
            /\ handle.kind = "Condition"
            /\ handle.INIT
            /\ ~handle.NESTED
            /\ ~InOrCallback]_vars

\* The closure of an `or` holds an initialized nested builder: the state in
\* which a second level of `or` would be asked for.
C2_Witness ==
    /\ Len(stack) = 2
    /\ stack[2].fn = "or"
    /\ handle = ConditionHandle(TRUE, TRUE)
    /\ Len(hazard.conditions) = 2

\* C3: on an uninitialized builder the only call is `when`; `and` and `or` are
\* called only after the current builder committed a comparison, `when` only
\* before.
C3_UninitializedOnlyWhen ==
    [][ /\ (handle.kind = "Condition" /\ ~handle.INIT /\ Len(calls') = Len(calls) + 1)
                => CallStep({"when"})
        /\ CallStep({"and", "or"})
                => (handle.kind = "Condition" /\ handle.INIT /\ BuilderCommitted)
        /\ CallStep({"when"})
                => (handle.kind = "Condition" /\ ~handle.INIT /\ ~BuilderCommitted)
      ]_vars

\* `when` was called on the uninitialized nested builder of an `or` closure.
C3_Witness ==
    /\ handle.kind = "PartialCondition"
    /\ handle.NESTED
    /\ Last(calls).op = "when"
    /\ calls[Len(calls) - 1].op = "or"

\* C4: a partial clause is followed by a comparison and by nothing else, and a
\* comparison follows nothing but a `when` or an `and`.
C4_WhenThenComparison ==
    [][ /\ handle.kind = "PartialCondition" => CallStep(CmpMethods)
        /\ CallStep(CmpMethods) => (calls # <<>> /\ Last(calls).op \in WhenAnd)
        /\ CallStep(WhenAnd) =>
                /\ handle'.kind = "PartialCondition"
                /\ (calls = <<>> \/ Last(calls).op \notin WhenAnd)
      ]_vars

\* when, comparison, and, comparison.
C4_Witness ==
    /\ panic = "none"
    /\ Len(calls) >= 4
    /\ calls[1].op = "when"
    /\ calls[2].op \in CmpMethods
    /\ calls[3].op = "and"
    /\ calls[4].op \in CmpMethods

\* C5: when `or` returns, the group it appended holds a committed comparison and
\* the builder it returns is initialized and unnested.
C5_OrReturnsInitialized ==
    [][CallStep({"or_return"}) =>
            /\ Last(stack).fn = "or"
            /\ Len(hazard'.conditions) >= Last(stack).group
            /\ Len(hazard'.conditions[Last(stack).group]) >= 1
            /\ handle' = ConditionHandle(TRUE, FALSE)]_vars

\* An `or` has returned.
C5_Witness ==
    /\ calls # <<>>
    /\ Last(calls).op = "or_return"
    /\ handle = ConditionHandle(TRUE, FALSE)

\* ------------------------------------------- what a chain of calls claims

RECURSIVE CountOps(_, _)
\* The number of calls of the history cs with an operation of ops.
CountOps(cs, ops) ==
    IF cs = <<>> THEN 0
    ELSE (IF Head(cs).op \in ops THEN 1 ELSE 0) + CountOps(Tail(cs), ops)

\* The condition a comparison method is said to commit for the scalar value v.
ClaimedCondition(m, v) ==
    CASE m = "eq" -> [tag |-> "Value", value |-> v, op |-> "none"]
      [] m = "ne" -> [tag |-> "Expr", value |-> v, op |-> "Ne"]
      [] m = "lt" -> [tag |-> "Expr", value |-> v, op |-> "Lt"]
      [] m = "le" -> [tag |-> "Expr", value |-> v, op |-> "Le"]
      [] m = "ge" -> [tag |-> "Expr", value |-> v, op |-> "Ge"]
      [] m = "gt" -> [tag |-> "Expr", value |-> v, op |-> "Gt"]

\* The pair a comparison call is said to commit: the path of the call before
\* it, and the claimed condition for its value.
ClaimedItem(before, cmp) ==
    [pointer |-> before.pointer,
     condition |-> ClaimedCondition(cmp.op, ValueTryFrom(cmp.value).value)]

RECURSIVE ClaimedItemsFrom(_, _)
ClaimedItemsFrom(cs, k) ==
    IF k > Len(cs) THEN <<>>
    ELSE IF cs[k].op \in CmpMethods
         THEN <<ClaimedItem(cs[k - 1], cs[k])>> \o ClaimedItemsFrom(cs, k + 1)
         ELSE ClaimedItemsFrom(cs, k + 1)

\* The claimed pairs of the comparison calls of a history, in call order.
ClaimedItems(cs) == ClaimedItemsFrom(cs, 2)

RECURSIVE WhenPointers(_)
\* The paths of the `when` calls of a history, in call order: one per clause.
WhenPointers(cs) ==
    IF cs = <<>> THEN <<>>
    ELSE (IF Head(cs).op = "when" THEN <<Head(cs).pointer>> ELSE <<>>)
            \o WhenPointers(Tail(cs))

RECURSIVE Flatten(_)
\* The items of a ConditionSet read group by group, item by item.
Flatten(groups) ==
    IF groups = <<>> THEN <<>> ELSE Head(groups) \o Flatten(Tail(groups))

\* The closure of the last hazard call has returned; calls is its history.
Completed == panic = "none" /\ stack = <<>> /\ hazards # <<>>

\* C6: a chain without `or` that called `when` yields exactly one group, holding
\* one item per comparison call, in call order.
C6_AndChainOneGroup ==
    (Completed /\ calls # <<>> /\ CountOps(calls, {"or"}) = 0) =>
        LET c == Last(hazards).conditions
        IN  /\ Len(c) = 1
            /\ Len(c[1]) = CountOps(calls, CmpMethods)
            /\ c[1] = ClaimedItems(calls)

\* A returned chain when(P1).x(..).and(P2).y(..).and(P1).z(..).
C6_Witness ==
    /\ Completed
    /\ CountOps(calls, {"or"}) = 0
    /\ Len(Last(hazards).conditions) = 1
    /\ Len(Last(hazards).conditions[1]) = 3
    /\ Last(hazards).conditions[1][1].pointer # Last(hazards).conditions[1][2].pointer
    /\ Last(hazards).conditions[1][1].condition # Last(hazards).conditions[1][3].condition

\* C7: a chain that called `when` and k times `or` yields k + 1 groups, the j-th
\* group starting with the path of the j-th clause started.
C7_OrAddsOneGroup ==
    (Completed /\ CountOps(calls, {"when"}) >= 1) =>
        LET c == Last(hazards).conditions
            w == WhenPointers(calls)
        IN  /\ Len(c) = CountOps(calls, {"or"}) + 1
            /\ Len(w) = Len(c)
            /\ \A j \in 1..Len(c) : c[j] # <<>> /\ c[j][1].pointer = w[j]

\* A returned chain with two `or` calls whose clauses start with different paths.
C7_Witness ==
    /\ Completed
    /\ CountOps(calls, {"or"}) = 2
    /\ Len(Last(hazards).conditions) = 3
    /\ Last(hazards).conditions[1][1].pointer # Last(hazards).conditions[2][1].pointer

\* C8: the ConditionSet read group by group and item by item is the sequence of
\* pairs of the comparison calls, in call order, one item per comparison call.
C8_OrderPreserved ==
    Completed =>
        LET c == Last(hazards).conditions
        IN  /\ Flatten(c) = ClaimedItems(calls)
            /\ SumLens(c) = CountOps(calls, CmpMethods)

\* A returned mixed chain: a first clause of two items, then an `or` clause.
C8_Witness ==
    /\ Completed
    /\ CountOps(calls, {"or"}) = 1
    /\ CountOps(calls, {"and"}) = 1
    /\ Len(Last(hazards).conditions) = 2
    /\ Len(Last(hazards).conditions[1]) = 2
    /\ Len(Last(hazards).conditions[2]) = 1
    /\ Last(hazards).conditions[1][1] # Last(hazards).conditions[1][2]
    /\ Last(hazards).conditions[1][2] # Last(hazards).conditions[2][1]

\* C9: a comparison call that succeeds commits the path of the `when`/`and`
\* before it with EqualsValue(v) for eq and Expr{v, op} for the other five.
C9_ComparisonCommitsPair ==
    [][(CallStep(CmpMethods) /\ panic' = "none") =>
            LET e == Last(calls')
                g == Len(hazard.conditions)
                item == Last(Last(hazard'.conditions))
            IN  /\ hazard'.conditions =
                        [hazard.conditions EXCEPT
                            ![g] = Append(@, ClaimedItem(Last(calls), e))]
                /\ (e.op = "eq") <=> (item.condition.tag = "Value")
                /\ (e.op # "eq") <=> (item.condition.tag = "Expr")]_vars

\* when("/a").x(..).and("/b").ge(5) has committed ("/b", Expr{5, Ge}).
C9_Witness ==
    /\ panic = "none"
    /\ Len(calls) = 4
    /\ calls[3].pointer = <<"/", "b">>
    /\ calls[4].op = "ge"
    /\ stack # <<>>
    /\ hazard.conditions[1][2] =
            [pointer |-> <<"/", "b">>,
             condition |-> [tag |-> "Expr",
                            value |-> ValueNumber(NumberFromInt(5)),
                            op |-> "Ge"]]

\* C10: when the closure of a hazard returns its builder without any call, the
\* hazard is appended with an empty ConditionSet.
C10_NoConditionHazard ==
    [][(stack # <<>> /\ stack' = <<>> /\ panic' = "none" /\ calls = <<>>) =>
            hazards' = Append(hazards, [risk |-> hazard.risk, conditions |-> <<>>])]_vars

\* A hazard without conditions was appended after one with conditions.
C10_Witness ==
    /\ Completed
    /\ calls = <<>>
    /\ Len(hazards) = 2
    /\ hazards[1].conditions # <<>>
    /\ hazards[2].conditions = <<>>

\* ---------------------------------------------------- the accumulated lists

\* The identifiers of the hazards hs, in their order.
HazardIds(hs) == [i \in 1..Len(hs) |-> hs[i].risk.id]

RECURSIVE FirstSeen(_)
\* The distinct elements of a sequence, each at the place of its first
\* appearance.
FirstSeen(s) ==
    IF s = <<>> THEN <<>>
    ELSE LET r == FirstSeen(SubSeq(s, 1, Len(s) - 1))
         IN  IF \E i \in 1..Len(r) : r[i] = Last(s) THEN r ELSE Append(r, Last(s))

\* The entries that the catalogue defines.
CatalogueEntries == {RiskConstants[n] : n \in DOMAIN RiskConstants}

C12_BuildReturnsAccumulated ==
    sifis.built =>
        /\ panic = "none"
        /\ sifis.risks = risks
        /\ sifis.hazards = hazards
        /\ Len(sifis.hazards) = Len(given)
        /\ \A k \in 1..Len(given) :
                /\ sifis.hazards[k].risk.id = given[k].id
                /\ sifis.hazards[k].risk.level = given[k].level
                /\ given[k].level \in 0..255

\* An extension built from two hazards of different identifiers, the first of
\* level 255, the second of level 0 and with conditions.
C12_Witness ==
    /\ sifis.built
    /\ Len(sifis.hazards) = 2
    /\ sifis.hazards[1].risk.id # sifis.hazards[2].risk.id
    /\ sifis.hazards[1].risk.level = 255
    /\ sifis.hazards[2].risk.level = 0
    /\ sifis.hazards[2].conditions # <<>>
    /\ Len(sifis.risks) = 2

\* ---------------------------------------------------------- the short forms

\* The identifier of the short form named fn.
ShortFormId(fn) == (CHOOSE sf \in ShortForms : sf.fn = fn).id

RECURSIVE AsHazardCalls(_)
\* The risks and hazards of the accumulator had each of the first k calls of the
\* session been hazard(id, level, f), with the identifier of the method that
\* was called, the level it was given, and the closure it was given.
AsHazardCalls(k) ==
    IF k = 0 THEN [risks |-> <<>>, hazards |-> <<>>]
    ELSE LET before == AsHazardCalls(k - 1)
             id == ShortFormId(given[k].via)
             h == [risk |-> [id |-> id, level |-> given[k].level],
                   conditions |-> hazards[k].conditions]
         IN  [risks |-> RisksPush(before.risks, id),
              hazards |-> HazardPush(before.hazards, h)]

\* C13: every hazard identifier has a short form, and the short forms called
\* with a level and a closure leave the accumulator with the risks and hazards
\* that hazard(identifier, level, closure) leaves.
C13_ShortFormsAsHazard ==
    /\ \A id \in AllIds : \E sf \in ShortForms : sf.id = id
    /\ \A k \in 1..Len(given) : \E sf \in ShortForms : sf.fn = given[k].via
    /\ Len(hazards) <= Len(given)
    /\ [risks |-> risks, hazards |-> hazards] = AsHazardCalls(Len(hazards))

\* water_flooding(255, |c| c), then fire_hazard(255, |c| c.when(..).eq(true)).
C13_Witness ==
    /\ stack = <<>>
    /\ Len(hazards) = 2
    /\ given[1].via = "water_flooding"
    /\ given[2].via = "fire_hazard"
    /\ hazards[1].risk = [id |-> "WaterFlooding", level |-> 255]
    /\ hazards[2].risk = [id |-> "FireHazard", level |-> 255]
    /\ hazards[2].conditions # <<>>
    /\ Len(risks) = 2

\* C14: the lookup yields a defined constant catalogue entry (id, category,
\* name, description) for every variant of the identifier enumeration: for the
\* identifier of every hazard added, the entry of the lookup is an entry that
\* the catalogue defines, with a category of the enumeration.
C14_LookupTotal ==
    \A k \in 1..Len(hazards) :
        LET e == IdRisk(hazards[k].risk.id)
        IN  /\ e \in CatalogueEntries
            /\ e.category \in Categories
            /\ \E i \in 1..Len(risks) : risks[i] = e

\* --------------------------------------------------- values and pointers

\* The last call of the history is a comparison.
ComparisonCalled == calls # <<>> /\ Last(calls).op \in CmpMethods

\* A floating-point input that is NaN or infinite.
NonFinite(x) == x.ty \in {"f32", "f64"} /\ x.f \in {"nan", "inf", "neginf"}

\* The kind of scalar that an input is said to become.
ClaimedTag(x) ==
    CASE x.ty = "bool" -> "Bool"
      [] x.ty \in {"String", "&str"} -> "String"
      [] OTHER -> "Number"

\* C15: a scalar from a NaN or infinite float, f32 or f64, always fails with
\* the invalid-float error; from a finite float, an integer, a boolean or a
\* string it always succeeds, as a scalar of that kind.
C15_ScalarFromNative ==
    ComparisonCalled =>
        LET x == Last(calls).value
            r == ValueTryFrom(x)
        IN  IF NonFinite(x)
            THEN /\ ~r.ok
                 /\ r.err = InvalidFloat
                 /\ panic = "invalid conditional value"
                 /\ message.err = InvalidFloat
            ELSE /\ r.ok
                 /\ r.value.tag = ClaimedTag(x)
                 /\ panic = "none"
                 /\ stack # <<>> =>
                        Last(Last(hazard.conditions)).condition.value = r.value

\* when("/a").ge(f32::INFINITY) has failed.
C15_Witness ==
    /\ ComparisonCalled
    /\ Last(calls).op = "ge"
    /\ Last(calls).value = NativeF32("inf", 0)
    /\ panic = "invalid conditional value"
    /\ message.err = InvalidFloat

\* The text p does not start with the separator.
NoLeadingSeparator(p) == p = <<>> \/ Head(p) # "/"

C17_MalformedFailsAtWhenAnd ==
    [][(CallStep(WhenAnd) /\ ~PointerTryFrom(Last(calls').pointer).ok) =>
            panic' = "invalid JSON pointer"]_vars

\* C17, amended: `when` and `and` keep the path as given and do not fail; a
\* malformed path raises the invalid-pointer failure at the comparison call
\* that follows, whatever its value.
C17_MalformedFailsAtComparison ==
    [][ /\ CallStep(WhenAnd) =>
                /\ panic' = "none"
                /\ handle'.kind = "PartialCondition"
                /\ handle'.pointer = Last(calls').pointer
        /\ (CallStep(CmpMethods) /\ ~PointerTryFrom(handle.pointer).ok) =>
                /\ panic' = "invalid JSON pointer"
                /\ message'.err = InvalidJsonPointer(handle.pointer)
                /\ hazard' = NoHazard
                /\ hazards' = hazards
      ]_vars

\* when(..).x(..).and("a").y(..) has failed at y.
C17_Witness ==
    /\ Len(calls) = 4
    /\ calls[3].op = "and"
    /\ calls[3].pointer = <<"a">>
    /\ calls[4].op \in CmpMethods
    /\ panic = "invalid JSON pointer"

\* The step is a comparison call whose value does not convert.
BadValueStep == CallStep(CmpMethods) /\ NonFinite(Last(calls').value)

\* C18, as claimed: a comparison call whose value does not convert aborts at
\* that call with a failure naming the path and the conversion error, and
\* commits no item.
C18_BadValueNamesPathAndError ==
    [][BadValueStep =>
            /\ panic' = "invalid conditional value"
            /\ message' = PanicMessage(handle.pointer, InvalidFloat)
            /\ hazard' = NoHazard
            /\ hazards' = hazards]_vars

\* C18, amended: a comparison call whose value does not convert aborts at that
\* call and commits no item; when its path is a valid pointer the failure names
\* the path and the conversion error.
C18_BadValueAbortsComparison ==
    [][BadValueStep =>
            /\ panic' # "none"
            /\ hazard' = NoHazard
            /\ hazards' = hazards
            /\ stack' = <<>>
            /\ PointerTryFrom(handle.pointer).ok =>
                    /\ panic' = "invalid conditional value"
                    /\ message' = PanicMessage(handle.pointer, InvalidFloat)]_vars

\* when(..).x(..).and("/~0").y(NaN) has failed at y, naming "/~0".
C18_Witness ==
    /\ Len(calls) = 4
    /\ calls[3].op = "and"
    /\ NonFinite(calls[4].value)
    /\ panic = "invalid conditional value"
    /\ message = PanicMessage(<<"/", "~", "0">>, InvalidFloat)

\* ------------------------------------------------------- the wire format

\* Every hazard of hs reads back from its serialization as itself.
RoundTrips(hs) ==
    \A k \in 1..Len(hs) : DeserializeHazard(SerializeHazard(hs[k])) = Ok(hs[k])

\* C19: serializing and then deserializing a Hazard (any identifier, level and
\* ConditionSet of EqualsValue and Expr conditions over booleans, numbers and
\* strings) yields a value equal to the original.
C19_HazardRoundTrip == RoundTrips(hazards) /\ RoundTrips(sifis.hazards)

\* A hazard of two groups went through: a first item le with the float 5.0,
\* then an `or` clause.
C19_Witness ==
    /\ Len(hazards) = 1
    /\ Len(hazards[1].conditions) = 2
    /\ hazards[1].conditions[1][1].condition =
            ConditionExpr(ValueNumber([N |-> "Float", v |-> 10]), "Le")
    /\ hazards[1].conditions[1][1].pointer = <<>>
    /\ hazards[1].conditions[2] # <<>>
    /\ DeserializeHazard(SerializeHazard(hazards[1])).ok

\* The extension that build returned, without the flag of the model.
SifisValue(s) == [risks |-> s.risks, hazards |-> s.hazards]

\* The extension s, and s with either list or both emptied.
WithEmptied(s) ==
    {[risks |-> r, hazards |-> h] : r \in {<<>>, s.risks}, h \in {<<>>, s.hazards}}

\* The JSON object without fields.
EmptyObject == JObject(<<>>)

\* C20: the extension with no risks and no hazards serializes to the empty
\* object, the empty object deserializes to the default extension, and each of
\* the two array fields is left out exactly when its list is empty.
C20_EmptyFieldsOmitted ==
    /\ SerializeSifis(SifisDefault) = EmptyObject
    /\ DeserializeSifis(EmptyObject) = Ok(SifisDefault)
    /\ sifis.built =>
          \A s \in WithEmptied(SifisValue(sifis)) :
              LET j == SerializeSifis(s)
              IN  /\ ("sho:risks" \in DOMAIN j.fields) <=> (s.risks # <<>>)
                  /\ ("sho:hazards" \in DOMAIN j.fields) <=> (s.hazards # <<>>)
                  /\ DOMAIN j.fields \subseteq {"sho:risks", "sho:hazards"}
                  /\ DeserializeSifis(j) = Ok(s)

\* A built extension with a hazard and its risk: both fields are written, and
\* the hazards field is not once the hazards are emptied.
C20_Witness ==
    /\ sifis.built
    /\ Len(sifis.hazards) = 1
    /\ Len(sifis.risks) = 1
    /\ sifis.hazards[1].conditions # <<>>
    /\ DOMAIN SerializeSifis(SifisValue(sifis)).fields = {"sho:risks", "sho:hazards"}
    /\ DOMAIN SerializeSifis([risks |-> sifis.risks, hazards |-> <<>>]).fields
            = {"sho:risks"}

\* The conditions of the items of the hazards hs.
ConditionsOf(hs) ==
    UNION { UNION { { hs[k].conditions[g][i].condition :
                        i \in 1..Len(hs[k].conditions[g]) } :
                    g \in 1..Len(hs[k].conditions) } :
            k \in 1..Len(hs) }

\* The JSON scalars.
BareScalar(j) == j.j \in {"bool", "number", "string"}

\* The five operator tokens.
ClaimedTokens ==
    { <<"l", "t">>, <<"l", "e">>, <<"n", "e">>, <<"g", "t">>, <<"g", "e">> }

\* A JSON object with a value field and an op field whose token is one of the
\* five.
ExprObject(j) ==
    /\ j.j = "object"
    /\ DOMAIN j.fields = {"sho:value", "sho:op"}
    /\ BareScalar(j.fields["sho:value"])
    /\ j.fields["sho:op"].j = "string"
    /\ j.fields["sho:op"].s \in ClaimedTokens

\* C21: an EqualsValue condition is written as a bare scalar and an Expr
\* condition as an object with a value field and an op field whose token is one
\* of lt, le, ne, gt, ge; a bare scalar reads back only as EqualsValue and such
\* an object only as Expr, for the scalar of every committed condition and
\* each of the five operations.
C21_WireFormsDistinct ==
    \A c \in ConditionsOf(hazards) :
        LET j == SerializeCondition(c)
            bare == SerializeCondition(ConditionValue(c.value))
        IN  /\ (c.tag = "Value") => (BareScalar(j) /\ ~ExprObject(j))
            /\ (c.tag = "Expr") => (ExprObject(j) /\ ~BareScalar(j))
            /\ DeserializeCondition(j) = Ok(c)
            /\ BareScalar(bare)
            /\ DeserializeCondition(bare) = Ok(ConditionValue(c.value))
            /\ \A op \in Operations :
                  LET o == SerializeCondition(ConditionExpr(c.value, op))
                  IN  /\ ExprObject(o)
                      /\ o.fields["sho:value"] = bare
                      /\ DeserializeCondition(o) = Ok(ConditionExpr(c.value, op))

\* A hazard went through whose first item is the bare string "lt" and whose
\* second item is an Expr object.
C21_Witness ==
    /\ Len(hazards) = 1
    /\ hazards[1].conditions # <<>>
    /\ Len(hazards[1].conditions[1]) >= 2
    /\ hazards[1].conditions[1][1].condition =
            ConditionValue(ValueString(<<"l", "t">>))
    /\ hazards[1].conditions[1][2].condition.tag = "Expr"
    /\ SerializeCondition(hazards[1].conditions[1][1].condition) = JString(<<"l", "t">>)
    /\ ExprObject(SerializeCondition(hazards[1].conditions[1][2].condition))

\* ------------------------------------------------------ the builder handles

\* The methods of the builders, and the return of the closure of `or`.
BuilderOps == WhenAnd \cup CmpMethods \cup {"or", "or_return"}

\* Exactly one builder exists while a closure runs, the one the chain holds;
\* none exists outside a build chain.
OneHandle(running, handles, h) ==
    IF running THEN Cardinality(handles) = 1 /\ h \in handles /\ h.kind # "none"
    ELSE handles = {}

\* C22: at every point of a build chain, inside the closure of an `or` too,
\* exactly one builder handle (condition or partial clause) exists; every
\* operation is called on that handle, consumes it, and returns the only new
\* one, so a consumed handle is never there to be used again.
C22_SingleLiveHandle ==
    [][ /\ OneHandle(stack # <<>>, live, handle)
        /\ OneHandle(stack' # <<>>, live', handle')
        /\ (stack # <<>>) => (handle \notin live')
        /\ CallStep(BuilderOps) => (handle \in live /\ live' \subseteq {handle'})
      ]_vars

\* The closure of an `or` has called `when`: the partial clause it holds is the
\* only handle, the builder `or` was called on and the one the closure was
\* given are gone.
C22_Witness ==
    /\ Len(stack) = 2
    /\ live = {PartialHandle(TRUE, 1, <<"/", "a">>)}
    /\ handle \in live

\* ------------------------------------------------------------ the numbers

\* The ConditionSet of the chain: of the running closure, or of the last
\* hazard once its closure has returned.
ChainConditions ==
    IF stack # <<>> THEN hazard.conditions
    ELSE IF panic = "none" /\ hazards # <<>> THEN Last(hazards).conditions
    ELSE <<>>

\* The comparison calls of a history, in call order.
ComparisonCalls(cs) == SelectSeq(cs, LAMBDA e : e.op \in CmpMethods)

IntegerNumber(v) == v.tag = "Number" /\ v.num.N \in {"PosInt", "NegInt"}

FloatingNumber(v) == v.tag = "Number" /\ v.num.N = "Float"

\* The value reads back from its serialization as itself.
ValueRoundTrips(v) == DeserializeValue(SerializeValue(v)) = Ok(v)

\* C23: the scalar committed for an integer is an integer number and the one
\* for a finite float a floating number; the scalar of an integer is not the
\* scalar of the float of the same magnitude (5 is not 5.0), and each reads
\* back from its serialization in its own representation.
C23_IntegerAndFloatDistinct ==
    LET items == Flatten(ChainConditions)
        cmps == ComparisonCalls(calls)
    IN  \A k \in 1..Len(items) :
            LET x == cmps[k].value
                v == items[k].condition.value
            IN  /\ (x.ty \in IntTypes) =>
                      LET f == ValueTryFrom(NativeF64("finite", 2 * x.i)).value
                      IN  /\ IntegerNumber(v) /\ v.num.v = x.i
                          /\ FloatingNumber(f)
                          /\ v # f
                          /\ SerializeValue(v) # SerializeValue(f)
                          /\ ValueRoundTrips(v) /\ ValueRoundTrips(f)
                          /\ ~SerializeValue(v).frac
                /\ (x.ty \in {"f32", "f64"}) =>
                      /\ FloatingNumber(v) /\ v.num.v = x.i
                      /\ ValueRoundTrips(v)
                      /\ SerializeValue(v).frac
                      /\ (x.i % 2 = 0) =>
                            LET i == ValueTryFrom(NativeIntOf("i64", x.i \div 2)).value
                            IN  IntegerNumber(i) /\ v # i /\ ValueRoundTrips(i)

\* The float 5.0 was committed, and the integer 5 is another scalar.
C23_Witness ==
    /\ Len(hazards) = 1
    /\ Len(calls) = 2
    /\ calls[2].value = NativeF64("finite", 10)
    /\ Flatten(hazards[1].conditions)[1].condition.value
            = ValueNumber([N |-> "Float", v |-> 10])
    /\ ValueTryFrom(NativeIntOf("u64", 5)).value = ValueNumber([N |-> "PosInt", v |-> 5])

\* ------------------------------------------------------ what a call changes

\* C24: `when` and `and` leave every committed item as it is; they append one
\* empty group exactly when the ConditionSet is empty, which is so only for the
\* first `when` of the builder of a hazard closure: `and`, and a `when` in the
\* closure of an `or`, leave the number of groups unchanged.
C24_WhenAndKeepItems ==
    [][CallStep(WhenAnd) =>
            LET before == hazard.conditions
                after == hazard'.conditions
            IN  /\ Flatten(after) = Flatten(before)
                /\ SubSeq(after, 1, Len(before)) = before
                /\ IF before = <<>> THEN after = << <<>> >> ELSE after = before
                /\ (before = <<>>) <=>
                        (Last(calls').op = "when" /\ calls = <<>> /\ ~handle.NESTED)
                /\ (Last(calls').op = "and" \/ InOrCallback) =>
                        Len(after) = Len(before)]_vars

\* The closure of an `or` has called `when` after a first clause of two items:
\* two groups as before the call, the items of the first in place.
C24_Witness ==
    /\ Len(stack) = 2
    /\ Last(calls).op = "when"
    /\ handle.kind = "PartialCondition"
    /\ Len(hazard.conditions) = 2
    /\ Len(hazard.conditions[1]) = 2
    /\ hazard.conditions[2] = <<>>

\* C25: a comparison call that succeeds appends exactly one item at the end of
\* the last group and changes nothing else: the number of groups, every other
\* group and every earlier item of the last group are unchanged.
C25_ComparisonAppendsOneItem ==
    [][(CallStep(CmpMethods) /\ panic' = "none") =>
            LET before == hazard.conditions
                after == hazard'.conditions
                n == Len(before)
            IN  /\ n >= 1
                /\ Len(after) = n
                /\ \A g \in 1..(n - 1) : after[g] = before[g]
                /\ Len(after[n]) = Len(before[n]) + 1
                /\ SubSeq(after[n], 1, Len(before[n])) = before[n]
                /\ hazard'.risk = hazard.risk
                /\ UNCHANGED <<risks, hazards, stack, sifis>>]_vars

\* A comparison in the closure of an `or` has succeeded after a first clause of
\* two items: its item is the one item of the second group.
C25_Witness ==
    /\ Len(stack) = 2
    /\ handle = ConditionHandle(TRUE, TRUE)
    /\ Last(calls).op \in CmpMethods
    /\ Len(hazard.conditions) = 2
    /\ Len(hazard.conditions[1]) = 2
    /\ Len(hazard.conditions[2]) = 1

\* The groups that were there when the `or` of the running closure was called
\* are there, item by item.
EnteredGroupsKept(frames, conditions) ==
    \A k \in 1..Len(frames) :
        frames[k].fn = "or" =>
            /\ Len(conditions) >= Len(frames[k].entered)
            /\ SubSeq(conditions, 1, Len(frames[k].entered)) = frames[k].entered

\* C26: the builder handed to the closure of an `or` modifies only the group
\* that this `or` appended: while the closure runs and when `or` returns, every
\* group that was there before the `or` call has the same items in the same
\* order.
C26_OrClosureKeepsEarlierGroups ==
    [][ /\ EnteredGroupsKept(stack', hazard'.conditions)
        /\ CallStep({"or_return"}) =>
                LET f == Last(stack)
                IN  /\ f.fn = "or"
                    /\ f.group = Len(f.entered) + 1
                    /\ Len(hazard'.conditions) = f.group
                    /\ SubSeq(hazard'.conditions, 1, Len(f.entered)) = f.entered
      ]_vars

\* An `or` has returned whose closure committed two items, after a first
\* clause of one item.
C26_Witness ==
    /\ stack # <<>>
    /\ calls # <<>>
    /\ Last(calls).op = "or_return"
    /\ Len(hazard.conditions) = 2
    /\ Len(hazard.conditions[1]) = 1
    /\ Len(hazard.conditions[2]) = 2

\* The history ends with the return of an `or`, an `and` and a comparison that
\* succeeded.
AndAfterOr ==
    /\ panic = "none"
    /\ Len(calls) >= 3
    /\ calls[Len(calls) - 2].op = "or_return"
    /\ calls[Len(calls) - 1].op = "and"
    /\ calls[Len(calls)].op \in CmpMethods

\* C27: an `and` called on the outer builder after an `or` has returned appends
\* its item to the group of the most recent `or`, the last group, and not to
\* the first clause: when(A).eq(a).or(|c| c.when(B).eq(b)).and(C).eq(c) yields
\* [[A], [B, C]].
C27_AndAfterOrExtendsLastGroup ==
    AndAfterOr =>
        LET c == ChainConditions
            n == Len(calls)
        IN  /\ Len(c) = CountOps(calls, {"or"}) + 1
            /\ Len(Last(c)) >= 2
            /\ Last(Last(c)) = ClaimedItem(calls[n - 1], calls[n])
            /\ (n = 8) =>
                  c = << <<ClaimedItem(calls[1], calls[2])>>,
                         <<ClaimedItem(calls[4], calls[5]),
                           ClaimedItem(calls[7], calls[8])>> >>

\* when("/a").x(..).or(|c| c.when("/b").y(..)).and("/a").z(..) has returned
\* [["/a"], ["/b", "/a"]], the two items on "/a" being different.
C27_Witness ==
    /\ AndAfterOr
    /\ Len(calls) = 8
    /\ hazards # <<>>
    /\ stack = <<>>
    /\ Len(hazards[1].conditions) = 2
    /\ Len(hazards[1].conditions[1]) = 1
    /\ Len(hazards[1].conditions[2]) = 2
    /\ hazards[1].conditions[1][1].pointer = <<"/", "a">>
    /\ hazards[1].conditions[2][1].pointer = <<"/", "b">>
    /\ hazards[1].conditions[2][2].pointer = <<"/", "a">>
    /\ hazards[1].conditions[2][2] # hazards[1].conditions[1][1]

\* ----------------------------------------------------- hazard by hazard

RECURSIVE ClaimedGroupsFrom(_, _, _)
ClaimedGroupsFrom(cs, k, groups) ==
    IF k > Len(cs) THEN groups
    ELSE ClaimedGroupsFrom(cs, k + 1,
            CASE cs[k].op = "or" -> Append(groups, <<>>)
              [] cs[k].op = "when" /\ groups = <<>> -> Append(groups, <<>>)
              [] cs[k].op \in CmpMethods ->
                    [groups EXCEPT ![Len(groups)] =
                        Append(@, ClaimedItem(cs[k - 1], cs[k]))]
              [] OTHER -> groups)

\* The ConditionSet the calls of a condition function are said to yield,
\* starting from an empty one.
ClaimedGroups(cs) == ClaimedGroupsFrom(cs, 1, <<>>)

\* C28: every hazard addition starts from a new empty ConditionSet; the
\* conditions of a hazard are those of the calls of its own condition function;
\* and no step of a later addition changes the identifier, level or conditions
\* of an earlier hazard or the order of the catalogue entries there are.
C28_HazardsIsolated ==
    [][ /\ (stack = <<>> /\ stack' # <<>>) =>
                /\ hazard'.conditions = <<>>
                /\ hazard'.risk = [id |-> Last(given').id, level |-> Last(given').level]
                /\ calls' = <<>>
        /\ (stack # <<>> /\ stack' = <<>> /\ panic' = "none") =>
                /\ hazards' = Append(hazards, [risk |-> hazard.risk,
                                               conditions |-> ClaimedGroups(calls)])
        /\ Len(hazards') >= Len(hazards)
        /\ SubSeq(hazards', 1, Len(hazards)) = hazards
        /\ Len(risks') >= Len(risks)
        /\ SubSeq(risks', 1, Len(risks)) = risks
      ]_vars

\* The closure of a second hazard runs and has committed an item, the first
\* hazard holding other conditions of two groups.
C28_Witness ==
    /\ Len(hazards) = 1
    /\ Len(hazards[1].conditions) = 2
    /\ stack # <<>>
    /\ Len(hazard.conditions) = 1
    /\ Len(hazard.conditions[1]) = 1
    /\ hazard.conditions[1][1] # hazards[1].conditions[1][1]
    /\ hazard.risk # hazards[1].risk
    /\ Len(risks) = 1

\* The identifiers of the catalogue entries rs.
CatalogueIds(rs) == {rs[i].id : i \in 1..Len(rs)}

\* C29: when the condition function of a hazard addition aborts on an invalid
\* pointer or an invalid scalar, the hazard is not appended and no catalogue
\* entry is added for it; nothing is done with the accumulator afterwards, so
\* no hazard with a partially built group is in an accumulator or in a built
\* extension.
C29_AbortedHazardNotAppended ==
    [][ /\ panic = "none"
        /\ (panic' # "none") =>
                /\ panic' \in {"invalid JSON pointer", "invalid conditional value"}
                /\ stack # <<>> /\ stack' = <<>>
                /\ hazards' = hazards
                /\ risks' = risks
                /\ Len(hazards') = Len(given') - 1
                /\ CatalogueIds(risks') = {hazards'[i].risk.id : i \in 1..Len(hazards')}
                /\ NoEmptyGroup(hazards')
                /\ ~sifis'.built
                /\ sifis'.hazards = <<>> /\ sifis'.risks = <<>>
      ]_vars

\* The addition of a second hazard, of another identifier, has aborted on a
\* value that is no scalar after `when` had pushed its empty group: the
\* accumulator holds the first hazard and its entry only.
C29_Witness ==
    /\ panic = "invalid conditional value"
    /\ Len(given) = 2
    /\ given[1].id # given[2].id
    /\ Len(calls) = 2
    /\ calls[1].op = "when"
    /\ Len(hazards) = 1
    /\ hazards[1].conditions # <<>>
    /\ Len(risks) = 1
    /\ risks[1].id = given[1].id

\* ---------------------------------------------------------- the evaluator

\* At least one group of the ConditionSet has all of its conditions true
\* against the data.
SomeGroupHolds(data, groups) ==
    \E g \in 1..Len(groups) :
        \A i \in 1..Len(groups[g]) : ConditionHolds(data, groups[g][i]) = "true"

\* A condition whose pointer does not resolve in the data counts as false.
UnresolvedIsFalse(data, groups) ==
    \A g \in 1..Len(groups) : \A i \in 1..Len(groups[g]) :
        (~Resolve(data, groups[g][i].pointer).ok) =>
            ConditionHolds(data, groups[g][i]) = "false"

\* The evaluation found the one hazard of the extension satisfied: its risk is
\* the result.
FoundSatisfied == evaluated.outcome = "ok" /\ evaluated.risks = <<sifis.hazards[1].risk>>

\* C30 as stated: a hazard is satisfied exactly when at least one outer group
\* has all of its conditions true against the data, a condition whose pointer
\* does not resolve counting as false.
C30_SatisfiedIffSomeGroupHolds ==
    (evaluated.done /\ Len(sifis.hazards) = 1) =>
        /\ UnresolvedIsFalse(evaluated.data, sifis.hazards[1].conditions)
        /\ FoundSatisfied <=> SomeGroupHolds(evaluated.data, sifis.hazards[1].conditions)

\* C30, amended: when the evaluation runs to its end, the hazard is satisfied
\* exactly when at least one outer group has all of its conditions true
\* against the data, a condition whose pointer does not resolve counting as
\* false; the evaluation aborts, with no result, only when some condition
\* meets an element that is not a scalar of the kind of its value.
C30_SatisfiedIffSomeGroupHoldsUnlessAborted ==
    (evaluated.done /\ Len(sifis.hazards) = 1) =>
        LET groups == sifis.hazards[1].conditions
            data == evaluated.data
        IN  /\ UnresolvedIsFalse(data, groups)
            /\ evaluated.outcome \in {"ok", "panic"}
            /\ (evaluated.outcome = "ok") =>
                    (FoundSatisfied <=> SomeGroupHolds(data, groups))
            /\ (evaluated.outcome = "ok" /\ ~FoundSatisfied) => evaluated.risks = <<>>
            /\ (evaluated.outcome = "panic") =>
                    \E g \in 1..Len(groups) : \E i \in 1..Len(groups[g]) :
                        ConditionHolds(data, groups[g][i]) = "panic"

\* A hazard of two groups was found satisfied through its second group, the
\* first one holding a condition that is false and one whose pointer does not
\* resolve.
C30_Witness ==
    /\ evaluated.done
    /\ Len(sifis.hazards) = 1
    /\ Len(sifis.hazards[1].conditions) = 2
    /\ Len(sifis.hazards[1].conditions[1]) = 2
    /\ ConditionHolds(evaluated.data, sifis.hazards[1].conditions[1][1]) = "true"
    /\ ~Resolve(evaluated.data, sifis.hazards[1].conditions[1][2].pointer).ok
    /\ AllHold(evaluated.data, sifis.hazards[1].conditions[2]) = "true"
    /\ FoundSatisfied

\* The places of the hazards of hs that are satisfied against the data.
SatisfiedAt(data, hs) ==
    {i \in 1..Len(hs) : SomeGroupHolds(data, hs[i].conditions)}

\* The place of the first satisfied hazard of hs with the identifier id.
FirstSatisfied(data, hs, id) ==
    CHOOSE i \in SatisfiedAt(data, hs) :
        /\ hs[i].risk.id = id
        /\ \A j \in SatisfiedAt(data, hs) : hs[j].risk.id = id => i <= j

\* C31: the result of the evaluation holds at most one risk per identifier, one
\* for each identifier of a satisfied hazard; its level is the maximum level
\* over the satisfied hazards with that identifier; and the identifiers are in
\* the order in which their first satisfied hazards are in the hazards list.
C31_ResultOneRiskPerIdMaxLevel ==
    (evaluated.done /\ evaluated.outcome = "ok") =>
        LET hs == sifis.hazards
            data == evaluated.data
            rs == evaluated.risks
            sat == SatisfiedAt(data, hs)
        IN  /\ \A k, l \in 1..Len(rs) : rs[k].id = rs[l].id => k = l
            /\ {rs[k].id : k \in 1..Len(rs)} = {hs[i].risk.id : i \in sat}
            /\ \A k \in 1..Len(rs) :
                  /\ \E i \in sat : hs[i].risk = rs[k]
                  /\ \A i \in sat : hs[i].risk.id = rs[k].id => hs[i].risk.level <= rs[k].level
            /\ \A k, l \in 1..Len(rs) :
                  k < l => FirstSatisfied(data, hs, rs[k].id) < FirstSatisfied(data, hs, rs[l].id)

\* Two satisfied hazards of one identifier, the higher level first: the result
\* is the one risk with the higher level.
C31_Witness ==
    /\ evaluated.done
    /\ Len(sifis.hazards) = 2
    /\ sifis.hazards[1].risk.id = sifis.hazards[2].risk.id
    /\ sifis.hazards[1].risk.level > sifis.hazards[2].risk.level
    /\ SatisfiedAt(evaluated.data, sifis.hazards) = {1, 2}
    /\ sifis.hazards[1].conditions # sifis.hazards[2].conditions
    /\ evaluated.risks = <<sifis.hazards[1].risk>>

\* The hazards of hs that have a condition.
WithConditions(hs) == SelectSeq(hs, LAMBDA h : h.conditions # <<>>)

\* C36: a hazard with an empty ConditionSet is never satisfied, whatever the
\* data: the result of the evaluation holds no risk for it, and is the result
\* of evaluating the extension without such hazards.
C36_EmptyConditionSetNeverSatisfied ==
    evaluated.done =>
        LET hs == sifis.hazards
            data == evaluated.data
            without == EvaluateHazards([hazards |-> WithConditions(hs)], data)
        IN  /\ \A i \in 1..Len(hs) :
                  hs[i].conditions = <<>> =>
                      /\ AnyGroup(data, hs[i].conditions) = "false"
                      /\ i \notin SatisfiedAt(data, hs)
            /\ WithConditions(hs) = <<>> => evaluated.risks = <<>>
            /\ evaluated.outcome = without.outcome
            /\ evaluated.risks = without.risks
            /\ \A k \in 1..Len(evaluated.risks) :
                  \E i \in 1..Len(hs) :
                      hs[i].conditions # <<>> /\ hs[i].risk = evaluated.risks[k]

\* A hazard without conditions before a satisfied hazard of another
\* identifier, against data with elements: the result is the risk of the
\* second hazard alone.
C36_Witness ==
    /\ evaluated.done
    /\ evaluated.data # <<>>
    /\ Len(sifis.hazards) = 2
    /\ sifis.hazards[1].conditions = <<>>
    /\ sifis.hazards[2].conditions # <<>>
    /\ sifis.hazards[1].risk.id # sifis.hazards[2].risk.id
    /\ evaluated.risks = <<sifis.hazards[2].risk>>

\* ------------------------------------------------- the state of the builder

\* C32: the assertion at the start of `or` always holds: whenever `or` is
\* called, the ConditionSet has at least one group and its last group has at
\* least one committed item.
C32_OrAssertionHolds ==
    [][CallStep({"or"}) =>
            /\ hazard.conditions # <<>>
            /\ Last(hazard.conditions) # <<>>
            /\ panic' = "none"
            /\ hazard'.conditions = Append(hazard.conditions, <<>>)]_vars

\* A second `or` was called, on the builder the first `or` returned: the last
\* group is the one the closure of the first `or` filled.
C32_Witness ==
    /\ panic = "none"
    /\ calls # <<>>
    /\ Last(calls).op = "or"
    /\ CountOps(calls, {"or"}) = 2
    /\ Len(hazard.conditions) = 3
    /\ hazard.conditions[2] # <<>>
    /\ hazard.conditions[3] = <<>>

\* C33: whenever the builder is uninitialized and unnested its ConditionSet is
\* empty; whenever it is uninitialized and nested the ConditionSet has at least
\* two groups, the last one empty and all earlier ones non-empty; whenever it
\* is initialized every group is non-empty.
C33_BuilderStateMatchesConditions ==
    handle.kind = "Condition" =>
        LET c == hazard.conditions
        IN  /\ (~handle.INIT /\ ~handle.NESTED) => c = <<>>
            /\ (~handle.INIT /\ handle.NESTED) =>
                    /\ Len(c) >= 2
                    /\ Last(c) = <<>>
                    /\ \A g \in 1..(Len(c) - 1) : c[g] # <<>>
            /\ handle.INIT => (c # <<>> /\ \A g \in 1..Len(c) : c[g] # <<>>)

\* The closure of a second `or` holds its uninitialized nested builder: three
\* groups, the last one empty.
C33_Witness ==
    /\ handle = ConditionHandle(FALSE, TRUE)
    /\ Len(stack) = 2
    /\ Len(hazard.conditions) = 3
    /\ hazard.conditions[3] = <<>>

\* C34: in a comparison call the path is validated before the value is
\* converted: when the path is malformed and the value is non-finite, the build
\* fails with the invalid-pointer failure, never with the invalid-scalar one.
C34_PointerValidatedBeforeValue ==
    [][(BadValueStep /\ ~PointerTryFrom(handle.pointer).ok) =>
            /\ panic' = "invalid JSON pointer"
            /\ message' = PanicMessage(<<>>, InvalidJsonPointer(handle.pointer))
            /\ hazard' = NoHazard]_vars

\* when("~1").x(NaN) has failed on the pointer.
C34_Witness ==
    /\ Len(calls) = 2
    /\ calls[1].op = "when"
    /\ calls[1].pointer = <<"~", "1">>
    /\ calls[2].op \in CmpMethods
    /\ NonFinite(calls[2].value)
    /\ panic = "invalid JSON pointer"
    /\ message.err = InvalidJsonPointer(<<"~", "1">>)

\* C35: for every hazard identifier the catalogue entry of the lookup carries
\* that same identifier, so distinct identifiers map to distinct entries and
\* the risk list holds an entry of an identifier exactly when a hazard of that
\* identifier was added.
C35_LookupCarriesIdentifier ==
    /\ \A k \in 1..Len(hazards) :
            IdRisk(hazards[k].risk.id).id = hazards[k].risk.id
    /\ \A k1, k2 \in 1..Len(hazards) :
            hazards[k1].risk.id # hazards[k2].risk.id =>
                IdRisk(hazards[k1].risk.id) # IdRisk(hazards[k2].risk.id)
    /\ \A id \in AllIds :
            (\E i \in 1..Len(risks) : risks[i].id = id)
                <=> (\E k \in 1..Len(hazards) : hazards[k].risk.id = id)

\* C37: the group index that a partial clause remembers is always in bounds and
\* is the index of the last group when the comparison is committed, so the
\* indexed push of a comparison call never goes out of bounds.
C37_OuterIndexIsLastGroup ==
    /\ panic # "index out of bounds"
    /\ handle.kind = "PartialCondition" =>
            /\ hazard.conditions # <<>>
            /\ handle.outer_index \in 0..(Len(hazard.conditions) - 1)
            /\ handle.outer_index = Len(hazard.conditions) - 1

\* A comparison was committed to the third group, through the index 2 of the
\* partial clause of the closure of a second `or`.
C37_Witness ==
    /\ panic = "none"
    /\ calls # <<>>
    /\ Last(calls).op \in CmpMethods
    /\ handle = ConditionHandle(TRUE, TRUE)
    /\ Len(hazard.conditions) = 3
    /\ Len(hazard.conditions[3]) = 1

====
